---- MODULE Spec2Model ----
(***************************************************************************)
(* Model of the job orchestration core of the Text-to-APK service:         *)
(*   src/api/main.py                 the job tables, the HTTP operations,  *)
(*                                   the background pipeline task and the  *)
(*                                   WebSocket manager;                    *)
(*   src/core/text_to_apk_engine.py  the engine the pipeline task calls.   *)
(*                                                                         *)
(* The service runs on one asyncio event loop: a handler or task runs      *)
(* uninterrupted from one suspension point (an await that really waits)    *)
(* to the next.  One action of the model is one such uninterrupted block.  *)
(***************************************************************************)
EXTENDS Integers, Sequences, FiniteSets, TLC

(***************************************************************************)
(* Bounds of the model.                                                    *)
(***************************************************************************)
\* Number of requests the model lets POST /generate accept.
MaxJobs == 2
\* Number of WebSocket connections clients open.
MaxSockets == 1

\* Python's None.
None == "None"

JobIds == 1..MaxJobs
Sockets == 1..MaxSockets

\* The _execute_prompt calls that can be in progress at the same time.
MaxExecs == 2
Execs == 1..MaxExecs

(***************************************************************************)
(* Python dictionaries are functions whose domain is the set of keys.      *)
(***************************************************************************)
EmptyDict == << >>

\* dict.update(new): the keys of new win.
DictUpdate(old, new) == new @@ old

\* del d[k]
DictDel(d, k) == [x \in (DOMAIN d) \ {k} |-> d[x]]

\* d[k] = v
DictSet(d, k, v) == (k :> v) @@ d

\* d.get(k), None when the key is absent.
DictGet(d, k) == IF k \in DOMAIN d THEN d[k] ELSE None

(***************************************************************************)
(* Strings.                                                                *)
(***************************************************************************)
IsSpace(c) == c \in {" ", "\t", "\n", "\r"}

\* str.strip(): what lies between the first and the last character that is
\* not white space.
Strip(s) ==
    LET kept == {i \in 1..Len(s) : ~IsSpace(SubSeq(s, i, i))}
    IN  IF kept = {} THEN ""
        ELSE SubSeq(s, CHOOSE i \in kept : \A k \in kept : i <= k,
                       CHOOSE i \in kept : \A k \in kept : i >= k)

UpperCase == "ABCDEFGHIJKLMNOPQRSTUVWXYZ"
LowerCase == "abcdefghijklmnopqrstuvwxyz"

LowerChar(c) ==
    IF \E i \in 1..26 : SubSeq(UpperCase, i, i) = c
    THEN LET i == CHOOSE k \in 1..26 : SubSeq(UpperCase, k, k) = c
         IN  SubSeq(LowerCase, i, i)
    ELSE c

\* str.lower()
Lower(s) ==
    LET lowered[i \in 0..Len(s)] ==
            IF i = 0 THEN ""
            ELSE lowered[i - 1] \o LowerChar(SubSeq(s, i, i))
    IN  lowered[Len(s)]

\* keyword in s
Contains(s, keyword) ==
    \E i \in 1..(Len(s) - Len(keyword) + 1) :
        SubSeq(s, i, i + Len(keyword) - 1) = keyword

(***************************************************************************)
(* Values a model reply carries after json.loads.  The Python code passes  *)
(* them on unvalidated, so a value keeps its JSON type.                    *)
(***************************************************************************)
JStr(v) == [t |-> "str", v |-> v]
JNum(v) == [t |-> "num", v |-> v]
JList(v) == [t |-> "list", v |-> v]

\* The outcome of a Python call: a returned value or a raised exception.
Return(v) == [ok |-> TRUE, value |-> v]
Raise(msg) == [ok |-> FALSE, error |-> msg]

(***************************************************************************)
(* src/core/text_to_apk_engine.py                                          *)
(***************************************************************************)
\* class AppFramework(Enum), in declaration order.
AppFramework ==
    << "react_native", "flutter", "kivy", "cordova", "native_android" >>

\* class AppCategory(Enum), in declaration order.
AppCategory ==
    << "productivity", "utility", "entertainment", "business",
       "education", "social", "health", "finance" >>

Range(f) == {f[x] : x \in DOMAIN f}

\* AppFramework(value): the enum member, or ValueError.
AppFrameworkOf(j) ==
    IF j.t = "str" /\ j.v \in Range(AppFramework)
    THEN Return(j.v)
    ELSE Raise("value is not a valid AppFramework")

\* AppCategory(value): the enum member, or ValueError.
AppCategoryOf(j) ==
    IF j.t = "str" /\ j.v \in Range(AppCategory)
    THEN Return(j.v)
    ELSE Raise("value is not a valid AppCategory")

\* _fallback_prompt_analysis: category_keywords, in insertion order.
category_keywords ==
    << [cat |-> "productivity",
        keywords |-> <<"todo", "task", "note", "calendar", "reminder">>],
       [cat |-> "utility",
        keywords |-> <<"calculator", "converter", "tool", "scanner">>],
       [cat |-> "entertainment",
        keywords |-> <<"game", "music", "video", "photo">>],
       [cat |-> "business",
        keywords |-> <<"inventory", "sales", "crm", "analytics">>],
       [cat |-> "education",
        keywords |-> <<"quiz", "learn", "study", "dictionary">>] >>

\* any(keyword in prompt_lower for keyword in keywords)
AnyKeyword(prompt_lower, keywords) ==
    \E i \in DOMAIN keywords : Contains(prompt_lower, keywords[i])

\* The first category whose keywords match, UTILITY when none does.
FallbackCategory(prompt_lower) ==
    LET hits == {i \in DOMAIN category_keywords :
                    AnyKeyword(prompt_lower, category_keywords[i].keywords)}
    IN  IF hits = {} THEN "utility"
        ELSE category_keywords[CHOOSE i \in hits : \A k \in hits : i <= k].cat

\* FallbackFramework without the keyword rules: the preference or the
\* default.
FallbackFrameworkDefaultOnly(prompt_lower, user_preferences) ==
    IF user_preferences # EmptyDict /\ "framework" \in DOMAIN user_preferences
    THEN AppFrameworkOf(user_preferences["framework"])
    ELSE Return("react_native")

\* The framework choice of _fallback_prompt_analysis.
FallbackFramework(prompt_lower, user_preferences) ==
    IF user_preferences # EmptyDict /\ "framework" \in DOMAIN user_preferences
    THEN AppFrameworkOf(user_preferences["framework"])
    ELSE IF Contains(prompt_lower, "simple") \/ Contains(prompt_lower, "basic")
    THEN Return("cordova")
    ELSE IF Contains(prompt_lower, "performance")
              \/ Contains(prompt_lower, "native")
    THEN Return("flutter")
    ELSE Return("react_native")

\* _extract_features: feature_keywords, in insertion order.
feature_keywords ==
    << [feature |-> "authentication",
        keywords |-> <<"login", "signup", "auth", "account">>],
       [feature |-> "data_storage",
        keywords |-> <<"save", "store", "database", "persist">>],
       [feature |-> "networking",
        keywords |-> <<"api", "sync", "cloud", "server">>],
       [feature |-> "camera",
        keywords |-> <<"photo", "camera", "picture", "scan">>],
       [feature |-> "location",
        keywords |-> <<"gps", "location", "map", "navigation">>],
       [feature |-> "notifications",
        keywords |-> <<"notify", "alert", "reminder", "push">>] >>

_extract_features(prompt) ==
    LET prompt_lower == Lower(prompt)
        found[i \in 0..Len(feature_keywords)] ==
            IF i = 0 THEN << >>
            ELSE IF AnyKeyword(prompt_lower, feature_keywords[i].keywords)
            THEN Append(found[i - 1], feature_keywords[i].feature)
            ELSE found[i - 1]
        features == found[Len(feature_keywords)]
    IN  IF features = << >> THEN << "basic_ui", "data_display" >> ELSE features

UpperChar(c) ==
    IF \E i \in 1..26 : SubSeq(LowerCase, i, i) = c
    THEN LET i == CHOOSE k \in 1..26 : SubSeq(LowerCase, k, k) = c
         IN  SubSeq(UpperCase, i, i)
    ELSE c

\* str.title() of a one-word lower-case value.
Title(s) ==
    IF Len(s) = 0 THEN s
    ELSE UpperChar(SubSeq(s, 1, 1)) \o SubSeq(s, 2, Len(s))

_fallback_prompt_analysis(prompt, user_preferences) ==
    LET prompt_lower == Lower(prompt)
        category == FallbackCategory(prompt_lower)
        framework == FallbackFramework(prompt_lower, user_preferences)
    IN  IF ~framework.ok THEN framework
        ELSE Return(
            [name |-> JStr("Generated " \o Title(category) \o " App"),
             description |-> JStr(prompt),
             category |-> category,
             framework |-> framework.value,
             features |-> JList(_extract_features(prompt)),
             ui_style |-> JStr("modern"),
             target_audience |-> JStr("general users"),
             complexity_level |-> JNum(5),
             api_integrations |-> JList(<< >>),
             permissions |-> JList(<< "INTERNET" >>),
             monetization |-> None])

\* spec_data.get(key, default)
GetOr(spec_data, key, default) ==
    IF key \in DOMAIN spec_data THEN spec_data[key] ELSE default

(***************************************************************************)
(* A reply of the model provider to one _call_openai: the call raises,     *)
(* or returns text that json.loads rejects, or text that parses to `data`. *)
(***************************************************************************)
CallRaises == [kind |-> "raise"]
NotJson == [kind |-> "text"]
Json(data) == [kind |-> "json", data |-> data]

\* analyze_prompt with the failure of the model call raised instead of
\* answered by the keyword fallback.
analyze_prompt_without_fallback(prompt, user_preferences, openai_client, reply) ==
    IF openai_client /\ reply.kind # "json"
    THEN Raise("model call failed")
    ELSE _fallback_prompt_analysis(prompt, user_preferences)

\* analyze_prompt: the model's answer when a client is configured and the
\* answer builds an AppSpecification, the keyword fallback otherwise.
analyze_prompt(prompt, user_preferences, openai_client, reply) ==
    LET spec_data == reply.data
        category == AppCategoryOf(GetOr(spec_data, "category", JStr("utility")))
        framework ==
            AppFrameworkOf(GetOr(spec_data, "framework", JStr("react_native")))
    IN  IF /\ openai_client
           /\ reply.kind = "json"
           /\ category.ok
           /\ framework.ok
        THEN Return(
            [name |-> GetOr(spec_data, "name", JStr("Generated App")),
             description |-> GetOr(spec_data, "description", JStr(prompt)),
             category |-> category.value,
             framework |-> framework.value,
             features |-> GetOr(spec_data, "features", JList(<< >>)),
             ui_style |-> GetOr(spec_data, "ui_style", JStr("modern")),
             target_audience |->
                 GetOr(spec_data, "target_audience", JStr("general")),
             complexity_level |-> GetOr(spec_data, "complexity_level", JNum(5)),
             api_integrations |->
                 GetOr(spec_data, "api_integrations", JList(<< >>)),
             permissions |-> GetOr(spec_data, "permissions", JList(<< >>)),
             monetization |-> None])
        ELSE _fallback_prompt_analysis(prompt, user_preferences)

_get_template_architecture(app_spec) ==
    [components |-> << "MainScreen", "NavigationBar", "ContentView" >>,
     screens |-> << "Home", "Settings" >>,
     data_flow |-> "local_state",
     external_services |-> app_spec.api_integrations]

\* generate_architecture: the prompt is formatted before the try block, and
\* ', '.join(app_spec.features) raises TypeError unless features is a list
\* of strings; after that the model's architecture or the template one.
generate_architecture(app_spec, openai_client, reply) ==
    IF app_spec.features.t # "list"
    THEN Raise("can only join an iterable")
    ELSE IF openai_client /\ reply.kind = "json"
    THEN Return(reply.data)
    ELSE Return(_get_template_architecture(app_spec))

\* The methods each builder class defines itself; FrameworkBuilder's own
\* generate_code and build_apk raise NotImplementedError.
BuilderMethods ==
    [ReactNativeBuilder |-> { "generate_code", "build_apk" },
     FlutterBuilder |-> { "generate_code", "build_apk" },
     KivyBuilder |-> { "generate_code", "build_apk" },
     CordovaBuilder |-> { "generate_code", "build_apk" },
     NativeAndroidBuilder |-> { "generate_code", "build_apk" }]

\* framework_builders with the Flutter builder not registered.
framework_builders_without_flutter ==
    [react_native |-> "ReactNativeBuilder",
     kivy |-> "KivyBuilder",
     cordova |-> "CordovaBuilder",
     native_android |-> "NativeAndroidBuilder"]

\* self.framework_builders: the builder registered for each framework.
framework_builders ==
    [react_native |-> "ReactNativeBuilder",
     flutter |-> "FlutterBuilder",
     kivy |-> "KivyBuilder",
     cordova |-> "CordovaBuilder",
     native_android |-> "NativeAndroidBuilder"]

\* generate_source_code: every builder formats app_spec.name.lower() into
\* its project files, which raises AttributeError unless name is a string.
generate_source_code(app_spec, architecture) ==
    IF app_spec.framework \notin DOMAIN framework_builders
    THEN Raise("KeyError: framework")
    ELSE IF "generate_code"
                \notin BuilderMethods[framework_builders[app_spec.framework]]
    THEN Raise("NotImplementedError")
    ELSE IF app_spec.name.t # "str"
    THEN Raise("object has no attribute 'lower'")
    ELSE Return([framework |-> app_spec.framework, name |-> app_spec.name.v])

\* build_time of each builder's build_apk.
BuildTime(framework) ==
    CASE framework = "react_native" -> 120
      [] framework = "flutter" -> 180
      [] framework = "kivy" -> 300
      [] framework = "cordova" -> 90
      [] framework = "native_android" -> 150

\* build_apk: every builder returns the same fixed path.
build_apk(app_spec, source_code) ==
    IF app_spec.framework \notin DOMAIN framework_builders
    THEN Raise("KeyError: framework")
    ELSE IF "build_apk"
                \notin BuilderMethods[framework_builders[app_spec.framework]]
    THEN Raise("NotImplementedError")
    ELSE Return([apk_path |-> "path/to/app.apk",
                 build_logs |-> << >>,
                 build_time |-> BuildTime(app_spec.framework)])

\* generate_apk_from_text: the four stages in order; an exception of any
\* stage is caught and returned as a result with success False.
generate_apk_from_text(prompt, user_preferences, openai_client, analysis_reply, architecture_reply) ==
    LET app_spec ==
            analyze_prompt(prompt, user_preferences, openai_client,
                           analysis_reply)
        architecture ==
            generate_architecture(app_spec.value, openai_client,
                                  architecture_reply)
        source_code == generate_source_code(app_spec.value, architecture.value)
        apk_result == build_apk(app_spec.value, source_code.value)
        Failure(e) == [success |-> FALSE, error |-> e.error, stage |-> "unknown"]
    IN  IF ~app_spec.ok THEN Failure(app_spec)
        ELSE IF ~architecture.ok THEN Failure(architecture)
        ELSE IF ~source_code.ok THEN Failure(source_code)
        ELSE IF ~apk_result.ok THEN Failure(apk_result)
        ELSE [success |-> TRUE,
              app_specification |-> app_spec.value,
              apk_path |-> apk_result.value.apk_path,
              build_logs |-> apk_result.value.build_logs,
              metadata |->
                  [generation_time |-> apk_result.value.build_time,
                   framework |-> app_spec.value.framework,
                   complexity |-> app_spec.value.complexity_level]]

(***************************************************************************)
(* src/api/main.py                                                         *)
(***************************************************************************)
VARIABLES
    active_generations,  \* dict: generation id -> record of a running job
    generation_history,  \* dict: generation id -> record of an archived job
    active_connections,  \* WebSocketManager: generation id -> socket
    sock,                \* each WebSocket: its state and what it received
    task,                \* each process_generation task: where it stands
    notifier_log,        \* per job, the events handed to send_update, in order
    files,               \* the paths for which os.path.exists is true
    response,               \* the response of the latest HTTP operation
    prompt_engineer,     \* the PromptEngineer: its client and response cache
    executions,          \* each _execute_prompt call: where it stands
    validate_call,       \* the latest _validate_app_specification call
    analysis_call,       \* the latest analyze_prompt call of the engine
    engine_run,          \* one generate_apk_from_text call: where it stands
    engineer_call        \* the latest call of a PromptEngineer or builder method

job_vars == << active_generations, generation_history, task >>
ws_vars == << active_connections, sock >>
env_vars == << files >>
engineer_vars == << prompt_engineer, executions >>
lib_vars == << prompt_engineer, executions, validate_call, analysis_call,
                    engine_run, engineer_call >>
vars == << active_generations, generation_history, active_connections, sock,
           task, notifier_log, files, response, prompt_engineer, executions,
           validate_call, analysis_call,
                    engine_run, engineer_call >>

\* The requests clients send to POST /generate.
ValidRequests ==
    { [prompt |->
           "Create a simple calculator app with basic arithmetic operations",
       user_preferences |-> EmptyDict,
       user_id |-> None],
      [prompt |-> "Build a todo list manager",
       user_preferences |-> [framework |-> JStr("swift")],
       user_id |-> "alice"] }

InvalidRequests ==
    { [prompt |-> "", user_preferences |-> EmptyDict, user_id |-> None],
      [prompt |-> "tiny app", user_preferences |-> EmptyDict, user_id |-> None],
      [prompt |-> "   hi     ", user_preferences |-> EmptyDict,
       user_id |-> None] }

Requests == ValidRequests \cup InvalidRequests

\* The replies the model provider gives to one call.
ModelReplies ==
    { CallRaises,
      NotJson,
      Json([name |-> JStr("Calc"), category |-> JStr("utility"),
            framework |-> JStr("flutter"), features |-> JList(<< "add" >>),
            complexity_level |-> JNum(3)]),
      Json([category |-> JStr("games")]),
      Json([features |-> JNum(7)]) }

\* The replies to the call of the analysis stage: those above, and a
\* specification whose complexity_level is outside 1..10.
AnalysisReplies ==
    ModelReplies
        \cup { Json([name |-> JStr("Calc"), complexity_level |-> JNum(17)]) }

Paths == { "path/to/app.apk" }

\* HTTPException(status_code, detail)
HTTPException(status_code, detail) ==
    [status_code |-> status_code, detail |-> detail]

NoResponse == [status_code |-> 0]

\* stages with the progress of two stages exchanged.
stages_unordered ==
    << [stage |-> "analyzing", progress |-> 20,
        description |-> "Analyzing prompt and extracting requirements"],
       [stage |-> "architecting", progress |-> 70,
        description |-> "Generating application architecture"],
       [stage |-> "coding", progress |-> 40,
        description |-> "Generating source code"],
       [stage |-> "building", progress |-> 90,
        description |-> "Building APK file"],
       [stage |-> "finalizing", progress |-> 95,
        description |-> "Finalizing and optimizing"] >>

\* stages with the last stage reporting full progress.
stages_full_at_finalizing ==
    << [stage |-> "analyzing", progress |-> 20,
        description |-> "Analyzing prompt and extracting requirements"],
       [stage |-> "architecting", progress |-> 40,
        description |-> "Generating application architecture"],
       [stage |-> "coding", progress |-> 70,
        description |-> "Generating source code"],
       [stage |-> "building", progress |-> 90,
        description |-> "Building APK file"],
       [stage |-> "finalizing", progress |-> 100,
        description |-> "Finalizing and optimizing"] >>

\* The stages of process_generation: (stage, progress, description).
stages ==
    << [stage |-> "analyzing", progress |-> 20,
        description |-> "Analyzing prompt and extracting requirements"],
       [stage |-> "architecting", progress |-> 40,
        description |-> "Generating application architecture"],
       [stage |-> "coding", progress |-> 70,
        description |-> "Generating source code"],
       [stage |-> "building", progress |-> 90,
        description |-> "Building APK file"],
       [stage |-> "finalizing", progress |-> 95,
        description |-> "Finalizing and optimizing"] >>

NoTask == [pc |-> "none", i |-> 0]

\* Before PromptEngineer(...) is constructed; an _execute_prompt call that
\* has not begun; no library call made yet.
NoEngineer == [constructed |-> FALSE]
NoExecution == [pc |-> "idle"]
NoCall == [called |-> FALSE]
\* Before generate_apk_from_text is called.
NoRun == [pc |-> "idle"]
NewSocket == [state |-> "new", generation_id |-> 0, last |-> EmptyDict]

Init ==
    /\ active_generations = EmptyDict
    /\ generation_history = EmptyDict
    /\ active_connections = EmptyDict
    /\ sock = [s \in Sockets |-> NewSocket]
    /\ task = [g \in JobIds |-> NoTask]
    /\ notifier_log = [g \in JobIds |-> << >>]
    /\ files = {}
    /\ response = NoResponse
    /\ prompt_engineer = NoEngineer
    /\ executions = [e \in Execs |-> NoExecution]
    /\ validate_call = NoCall
    /\ analysis_call = NoCall
    /\ engine_run = NoRun
    /\ engineer_call = NoCall

\* The ids uuid4 has handed out to accepted requests.
KnownIds == (DOMAIN active_generations) \cup (DOMAIN generation_history)

\* datetime.utcnow() when a request is accepted: the clock has advanced
\* since the request before it was accepted.
utcnow == Cardinality(KnownIds)

\* str(uuid.uuid4()): an id no job has yet.
FreshId == CHOOSE g \in JobIds \ KnownIds : \A h \in JobIds \ KnownIds : g <= h

(***************************************************************************)
(* WebSocketManager                                                        *)
(***************************************************************************)
\* disconnect(generation_id): the entry of that id is deleted, whichever
\* socket it holds.
disconnect(connections, generation_id) ==
    IF generation_id \in DOMAIN connections
    THEN DictDel(connections, generation_id)
    ELSE connections

\* send_update that empties the table when the id has no registration.
send_update_clears_table(generation_id, data, archived) ==
    /\ notifier_log' =
           [notifier_log EXCEPT ![generation_id] =
               Append(@, [data |-> data, archived |-> archived])]
    /\ IF generation_id \in DOMAIN active_connections
       THEN LET s == active_connections[generation_id]
            IN  IF sock[s].state = "open"
                THEN /\ sock' = [sock EXCEPT ![s].last = data]
                     /\ UNCHANGED active_connections
                ELSE /\ active_connections' =
                            disconnect(active_connections, generation_id)
                     /\ UNCHANGED sock
       ELSE /\ active_connections' = EmptyDict
            /\ UNCHANGED sock

\* send_update(generation_id, data): the data goes to the socket registered
\* for the id; a send that raises drops the registration; without a
\* registration nothing happens.  archived tells whether the job was in
\* generation_history when the event was handed over.
send_update(generation_id, data, archived) ==
    /\ notifier_log' =
           [notifier_log EXCEPT ![generation_id] =
               Append(@, [data |-> data, archived |-> archived])]
    /\ IF generation_id \in DOMAIN active_connections
       THEN LET s == active_connections[generation_id]
            IN  IF sock[s].state = "open"
                THEN /\ sock' = [sock EXCEPT ![s].last = data]
                     /\ UNCHANGED active_connections
                ELSE /\ active_connections' =
                            disconnect(active_connections, generation_id)
                     /\ UNCHANGED sock
       ELSE UNCHANGED << active_connections, sock >>

(***************************************************************************)
(* update_generation_status                                                *)
(***************************************************************************)
StatusFields(status, progress, stage, error) ==
    LET fields == [status |-> status, progress |-> progress,
                   current_stage |-> stage]
    IN  IF error # None /\ error # ""
        THEN fields @@ [error |-> error]
        ELSE fields

\* update_generation_status with the fields written to every active record.
update_generation_status_all(generation_id, status, progress, stage, error) ==
    IF generation_id \in DOMAIN active_generations
    THEN /\ active_generations' =
                [g \in DOMAIN active_generations |->
                    DictUpdate(active_generations[g],
                               StatusFields(status, progress, stage, error))]
         /\ send_update(generation_id,
                        [type |-> "status_update", status |-> status,
                         progress |-> progress, current_stage |-> stage,
                         error |-> error],
                        generation_id \in DOMAIN generation_history)
    ELSE UNCHANGED << active_generations, notifier_log, ws_vars >>

update_generation_status(generation_id, status, progress, stage, error) ==
    IF generation_id \in DOMAIN active_generations
    THEN /\ active_generations' =
                [active_generations EXCEPT ![generation_id] =
                    DictUpdate(@, StatusFields(status, progress, stage, error))]
         /\ send_update(generation_id,
                        [type |-> "status_update", status |-> status,
                         progress |-> progress, current_stage |-> stage,
                         error |-> error],
                        generation_id \in DOMAIN generation_history)
    ELSE UNCHANGED << active_generations, notifier_log, ws_vars >>

(***************************************************************************)
(* POST /generate                                                          *)
(***************************************************************************)
\* The check of the request: whether it raises, and the exception raised.
ValidateRequest(request) ==
    IF request.prompt = "" \/ Len(Strip(request.prompt)) < 10
    THEN [raised |-> TRUE,
          exception |->
              HTTPException(400, "Prompt must be at least 10 characters long")]
    ELSE [raised |-> FALSE]

\* except Exception as e: every exception raised in the try block, the
\* HTTPException of the check included, leaves as a 500.
GenerateExceptionHandler(e) ==
    HTTPException(500, "Generation failed: " \o e.detail)

NewGeneration(generation_id, request, created_at) ==
    [id |-> generation_id,
     prompt |-> request.prompt,
     user_preferences |-> request.user_preferences,
     user_id |-> request.user_id,
     status |-> "queued",
     progress |-> 0,
     current_stage |-> "Initializing",
     created_at |-> created_at,
     estimated_time |-> 180]

\* ValidateRequest of every request of the model, computed once.
Validation == [request \in Requests |-> ValidateRequest(request)] @@ << >>

\* generate_apk with the record stored before the request is checked.
generate_apk_registers_first(request) ==
    /\ JobIds \ KnownIds # {}
    /\ active_generations' =
           DictSet(active_generations, FreshId,
                   NewGeneration(FreshId, request, utcnow))
    /\ IF Validation[request].raised
       THEN /\ response' =
                   GenerateExceptionHandler(Validation[request].exception)
            /\ UNCHANGED task
       ELSE /\ task' = [task EXCEPT ![FreshId] = [pc |-> "start", i |-> 0]]
            /\ response' = [status_code |-> 200,
                            generation_id |-> FreshId,
                            status |-> "queued",
                            message |-> "APK generation started successfully",
                            estimated_time |-> 180]
    /\ UNCHANGED << generation_history, ws_vars, notifier_log, env_vars, lib_vars >>

generate_apk(request) ==
    IF Validation[request].raised
    THEN /\ response' = GenerateExceptionHandler(Validation[request].exception)
         /\ UNCHANGED << job_vars, ws_vars, notifier_log, env_vars, lib_vars >>
    ELSE /\ JobIds \ KnownIds # {}
         /\ active_generations' =
                DictSet(active_generations, FreshId,
                        NewGeneration(FreshId, request, utcnow))
         /\ task' = [task EXCEPT ![FreshId] = [pc |-> "start", i |-> 0]]
         /\ response' = [status_code |-> 200,
                      generation_id |-> FreshId,
                      status |-> "queued",
                      message |-> "APK generation started successfully",
                      estimated_time |-> 180]
         /\ UNCHANGED << generation_history, ws_vars, notifier_log, env_vars, lib_vars >>

\* engine.generate_apk_from_text for every call the model makes, computed
\* once.
EngineResult ==
    [call \in { << r.prompt, r.user_preferences >> : r \in ValidRequests }
              \X BOOLEAN \X ModelReplies \X ModelReplies |->
        generate_apk_from_text(call[1][1], call[1][2], call[2], call[3],
                               call[4])] @@ << >>

(***************************************************************************)
(* process_generation, the background task of one job                      *)
(***************************************************************************)
\* NextTask with the pipeline started again after the result was handled.
NextTaskRestarts(t) ==
    CASE t.pc = "start" -> [pc |-> "stages", i |-> 1]
      [] t.pc = "stages" /\ t.i < Len(stages) -> [pc |-> "stages", i |-> t.i + 1]
      [] t.pc = "stages" /\ t.i = Len(stages) -> [pc |-> "engine", i |-> 0]
      [] t.pc = "engine" -> [pc |-> "stages", i |-> 1]

\* Where the task goes next: after the first status update the stage loop,
\* after the last stage the engine call, after the result the end.
NextTask(t) ==
    CASE t.pc = "start" -> [pc |-> "stages", i |-> 1]
      [] t.pc = "stages" /\ t.i < Len(stages) -> [pc |-> "stages", i |-> t.i + 1]
      [] t.pc = "stages" /\ t.i = Len(stages) -> [pc |-> "engine", i |-> 0]
      [] t.pc = "engine" -> [pc |-> "done", i |-> 0]

\* The task starts: the first status update, up to the wait on its send.
process_generation_start(generation_id) ==
    /\ task[generation_id].pc = "start"
    /\ update_generation_status(generation_id, "processing", 10,
                                "Analyzing prompt", None)
    /\ task' = [task EXCEPT ![generation_id] = NextTask(@)]
    /\ UNCHANGED << generation_history, env_vars, lib_vars, response >>

\* process_generation_stage with the stage tag recorded as the status.
process_generation_stage_tagged(generation_id) ==
    /\ task[generation_id].pc = "stages"
    /\ LET stage == stages[task[generation_id].i]
       IN  update_generation_status(generation_id, stage.stage,
                                    stage.progress, stage.description, None)
    /\ task' = [task EXCEPT ![generation_id] = NextTask(@)]
    /\ UNCHANGED << generation_history, env_vars, lib_vars, response >>

\* One turn of the stage loop: the status update, then asyncio.sleep(2).
process_generation_stage(generation_id) ==
    /\ task[generation_id].pc = "stages"
    /\ LET stage == stages[task[generation_id].i]
       IN  update_generation_status(generation_id, "processing",
                                    stage.progress, stage.description, None)
    /\ task' = [task EXCEPT ![generation_id] = NextTask(@)]
    /\ UNCHANGED << generation_history, env_vars, lib_vars, response >>

\* process_generation_completed with the completed event sent before the
\* record is moved to history.
process_generation_completed_notify_first(generation_id, result) ==
    LET gen_data ==
            DictUpdate(active_generations[generation_id],
                       [status |-> "completed",
                        progress |-> 100,
                        current_stage |-> "Completed",
                        apk_path |-> result.apk_path,
                        app_name |-> result.app_specification.name,
                        framework |-> result.app_specification.framework,
                        build_time |-> result.metadata.generation_time])
    IN  /\ send_update(generation_id,
                       [type |-> "completed", status |-> "completed",
                        progress |-> 100,
                        download_url |-> << "/download/", generation_id >>,
                        app_name |-> result.app_specification.name],
                       generation_id \in DOMAIN generation_history)
        /\ generation_history' =
               DictSet(generation_history, generation_id, gen_data)
        /\ active_generations' = DictDel(active_generations, generation_id)

\* process_generation_completed without `del active_generations[...]`.
process_generation_completed_keeps_active(generation_id, result) ==
    LET gen_data ==
            DictUpdate(active_generations[generation_id],
                       [status |-> "completed",
                        progress |-> 100,
                        current_stage |-> "Completed",
                        apk_path |-> result.apk_path,
                        app_name |-> result.app_specification.name,
                        framework |-> result.app_specification.framework,
                        build_time |-> result.metadata.generation_time])
        history == DictSet(generation_history, generation_id, gen_data)
    IN  /\ generation_history' = history
        /\ active_generations' =
               DictSet(active_generations, generation_id, gen_data)
        /\ send_update(generation_id,
                       [type |-> "completed", status |-> "completed",
                        progress |-> 100,
                        download_url |-> << "/download/", generation_id >>,
                        app_name |-> result.app_specification.name],
                       TRUE)

\* if result["success"]: the record is completed and moved to history, and
\* then the completed event is sent.
process_generation_completed(generation_id, result) ==
    LET gen_data ==
            DictUpdate(active_generations[generation_id],
                       [status |-> "completed",
                        progress |-> 100,
                        current_stage |-> "Completed",
                        apk_path |-> result.apk_path,
                        app_name |-> result.app_specification.name,
                        framework |-> result.app_specification.framework,
                        build_time |-> result.metadata.generation_time])
        history == DictSet(generation_history, generation_id, gen_data)
    IN  /\ generation_history' = history
        /\ active_generations' = DictDel(active_generations, generation_id)
        /\ send_update(generation_id,
                       [type |-> "completed", status |-> "completed",
                        progress |-> 100,
                        download_url |-> << "/download/", generation_id >>,
                        app_name |-> result.app_specification.name],
                       generation_id \in DOMAIN history)

\* process_generation_failed with the failed record moved to the history.
process_generation_failed_archives(generation_id, result) ==
    LET error == IF "error" \in DOMAIN result
                 THEN result.error ELSE "Unknown error"
        gen_data ==
            DictUpdate(active_generations[generation_id],
                       StatusFields("failed", 0, "Generation failed", error))
    IN  /\ generation_history' =
               DictSet(generation_history, generation_id, gen_data)
        /\ active_generations' = DictDel(active_generations, generation_id)
        /\ send_update(generation_id,
                       [type |-> "status_update", status |-> "failed",
                        progress |-> 0, current_stage |-> "Generation failed",
                        error |-> error],
                       TRUE)

\* process_generation_failed with the failure dropped.
process_generation_failed_silent(generation_id, result) ==
    UNCHANGED << active_generations, generation_history, notifier_log, ws_vars >>

\* process_generation_failed with the job left in processing.
process_generation_failed_keeps_processing(generation_id, result) ==
    /\ update_generation_status(generation_id, "processing", 0,
                                "Generation failed",
                                IF "error" \in DOMAIN result
                                THEN result.error ELSE "Unknown error")
    /\ UNCHANGED generation_history

\* else: the failure is recorded by a status update.
process_generation_failed(generation_id, result) ==
    /\ update_generation_status(generation_id, "failed", 0,
                                "Generation failed",
                                IF "error" \in DOMAIN result
                                THEN result.error ELSE "Unknown error")
    /\ UNCHANGED generation_history

\* The engine call returns and its result is handled.  The engine was built
\* with or without an API key, and the provider answers its two calls as it
\* likes.  The engine catches every exception of its stages, so the except
\* branch of the task stays unused.
process_generation_result(generation_id) ==
    /\ task[generation_id].pc = "engine"
    /\ \E openai_client \in BOOLEAN,
          analysis_reply \in ModelReplies,
          architecture_reply \in ModelReplies :
          LET request == active_generations[generation_id]
              result == EngineResult[<< << request.prompt,
                                           request.user_preferences >>,
                                        openai_client, analysis_reply,
                                        architecture_reply >>]
          IN  IF result.success
              THEN process_generation_completed(generation_id, result)
              ELSE process_generation_failed(generation_id, result)
    /\ task' = [task EXCEPT ![generation_id] = NextTask(@)]
    /\ UNCHANGED << env_vars, lib_vars, response >>

\* The message texts of the exceptions a patched stage of the engine raises:
\* the one of the test suite, and an exception constructed without message.
ExceptionMessages == { "Analysis failed", "" }

\* The engine call returns the failure of a stage that raised an exception
\* with the given message text, and the task handles it.
process_generation_result_raised(generation_id, message) ==
    /\ task[generation_id].pc = "engine"
    /\ process_generation_failed(
           generation_id,
           [success |-> FALSE, error |-> message, stage |-> "unknown"])
    /\ task' = [task EXCEPT ![generation_id] = NextTask(@)]
    /\ UNCHANGED << env_vars, lib_vars, response >>

(***************************************************************************)
(* GET /status/{generation_id}                                             *)
(***************************************************************************)
\* GenerationStatus that looks the id up in the active set only.
GenerationStatusActiveOnly(generation_id) ==
    IF generation_id \notin DOMAIN active_generations
    THEN HTTPException(404, "Generation not found")
    ELSE LET gen_data == active_generations[generation_id]
         IN  [status_code |-> 200,
              generation_id |-> generation_id,
              status |-> gen_data.status,
              progress |-> gen_data.progress,
              current_stage |-> gen_data.current_stage,
              estimated_remaining |-> DictGet(gen_data, "estimated_remaining"),
              error |-> DictGet(gen_data, "error")]

GenerationStatus(generation_id) ==
    IF generation_id \notin DOMAIN active_generations
       /\ generation_id \notin DOMAIN generation_history
    THEN HTTPException(404, "Generation not found")
    ELSE IF generation_id \in DOMAIN active_generations
    THEN LET gen_data == active_generations[generation_id]
         IN  [status_code |-> 200,
              generation_id |-> generation_id,
              status |-> gen_data.status,
              progress |-> gen_data.progress,
              current_stage |-> gen_data.current_stage,
              estimated_remaining |-> DictGet(gen_data, "estimated_remaining"),
              error |-> DictGet(gen_data, "error")]
    ELSE LET gen_data == generation_history[generation_id]
         IN  [status_code |-> 200,
              generation_id |-> generation_id,
              status |-> gen_data.status,
              progress |-> IF gen_data.status = "completed" THEN 100 ELSE 0,
              current_stage |->
                  IF gen_data.status = "completed" THEN "Completed" ELSE "Failed",
              estimated_remaining |-> None,
              error |-> DictGet(gen_data, "error")]

get_generation_status(generation_id) ==
    /\ response' = GenerationStatus(generation_id)
    /\ UNCHANGED << job_vars, ws_vars, notifier_log, env_vars, lib_vars >>

(***************************************************************************)
(* GET /download/{generation_id}                                           *)
(***************************************************************************)
\* DownloadResponse without the check that the file exists.
DownloadResponseUnchecked(generation_id) ==
    IF generation_id \notin DOMAIN generation_history
    THEN HTTPException(404, "Generation not found or not completed")
    ELSE LET gen_data == generation_history[generation_id]
         IN  IF gen_data.status # "completed"
             THEN HTTPException(400, "APK generation not completed")
             ELSE [status_code |-> 200,
                   path |-> gen_data.apk_path,
                   filename |-> << gen_data.app_name, ".apk" >>]

DownloadResponse(generation_id) ==
    IF generation_id \notin DOMAIN generation_history
    THEN HTTPException(404, "Generation not found or not completed")
    ELSE LET gen_data == generation_history[generation_id]
         IN  IF gen_data.status # "completed"
             THEN HTTPException(400, "APK generation not completed")
             ELSE IF "apk_path" \notin DOMAIN gen_data
                     \/ gen_data.apk_path \notin files
             THEN HTTPException(404, "APK file not found")
             ELSE [status_code |-> 200,
                   path |-> gen_data.apk_path,
                   filename |-> << gen_data.app_name, ".apk" >>]

download_apk(generation_id) ==
    /\ response' = DownloadResponse(generation_id)
    /\ UNCHANGED << job_vars, ws_vars, notifier_log, env_vars, lib_vars >>

(***************************************************************************)
(* The file system the service runs on: another process creates or         *)
(* removes a file.                                                         *)
(***************************************************************************)
FileSystemChanges ==
    /\ \E path \in Paths :
          files' = IF path \in files THEN files \ {path} ELSE files \cup {path}
    /\ UNCHANGED << job_vars, ws_vars, notifier_log, response, lib_vars >>

(***************************************************************************)
(* WebSocket /ws/{generation_id}                                           *)
(***************************************************************************)
\* A client connects: the socket is accepted and registered for the id,
\* replacing the socket registered before; if the job is active the
\* current status is sent to the registered socket.
websocket_endpoint(s, generation_id) ==
    /\ sock[s].state = "new"
    /\ \A z \in Sockets : z < s => sock[z].state # "new"
    /\ LET connections == DictSet(active_connections, generation_id, s)
           opened == [sock EXCEPT ![s] = [state |-> "open",
                                          generation_id |-> generation_id,
                                          last |-> EmptyDict]]
       IN  IF generation_id \in DOMAIN active_generations
           THEN LET gen_data == active_generations[generation_id]
                    data == [type |-> "status_update",
                             status |-> gen_data.status,
                             progress |-> gen_data.progress,
                             current_stage |-> gen_data.current_stage]
                IN  /\ sock' = [opened EXCEPT ![s].last = data]
                    /\ active_connections' = connections
                    /\ notifier_log' =
                           [notifier_log EXCEPT ![generation_id] =
                               Append(@, [data |-> data, archived |-> FALSE])]
           ELSE /\ sock' = opened
                /\ active_connections' = connections
                /\ UNCHANGED notifier_log
    /\ UNCHANGED << job_vars, env_vars, lib_vars, response >>

\* The client of an open socket goes away.
ClientCloses(s) ==
    /\ sock[s].state = "open"
    /\ sock' = [sock EXCEPT ![s].state = "closing"]
    /\ UNCHANGED << job_vars, active_connections, notifier_log, env_vars, lib_vars,
                    response >>

\* The endpoint's receive loop sees the disconnect (or any other error)
\* and calls websocket_manager.disconnect(generation_id).
websocket_disconnect(s) ==
    /\ sock[s].state = "closing"
    /\ sock' = [sock EXCEPT ![s].state = "closed"]
    /\ active_connections' =
           disconnect(active_connections, sock[s].generation_id)
    /\ UNCHANGED << job_vars, notifier_log, env_vars, lib_vars, response >>

(***************************************************************************)
(* GET /history                                                            *)
(***************************************************************************)
\* The limit and user_id parameters clients send; FastAPI accepts every
\* integer as limit.
Limits == { -1, 0, 1, 10 }
UserIds == { None, "", "alice" }

\* history.sort(key=created_at, reverse=True): newest first.  The records
\* of the model have distinct creation times, so the order is determined.
RECURSIVE SortNewestFirst(_)
SortNewestFirst(records) ==
    IF records = {}
    THEN << >>
    ELSE LET newest == CHOOSE r \in records :
                           \A q \in records : q.created_at <= r.created_at
         IN  << newest >> \o SortNewestFirst(records \ {newest})

\* history[:limit]: a negative limit counts from the end of the list.
Slice(history, limit) ==
    LET n == Len(history)
        stop == IF limit >= 0
                THEN (IF limit < n THEN limit ELSE n)
                ELSE (IF n + limit > 0 THEN n + limit ELSE 0)
    IN  SubSeq(history, 1, stop)

\* if user_id: an empty user_id filters nothing.
FilterByUser(records, user_id) ==
    IF user_id # None /\ user_id # ""
    THEN { gen \in records : gen.user_id = user_id }
    ELSE records

HistoryResponse(limit, user_id) ==
    LET history ==
            SortNewestFirst(
                FilterByUser({ generation_history[g] :
                                   g \in DOMAIN generation_history },
                             user_id))
    IN  [status_code |-> 200,
         generations |-> Slice(history, limit),
         total |-> Len(history)]

\* get_generation_history with the listed records dropped from the
\* history set once they are returned.
get_generation_history_evicts(limit, user_id) ==
    /\ response' = HistoryResponse(limit, user_id)
    /\ generation_history' =
           [g \in { h \in DOMAIN generation_history :
                        \A i \in DOMAIN HistoryResponse(limit, user_id).generations :
                            HistoryResponse(limit, user_id).generations[i].id # h }
               |-> generation_history[g]]
    /\ UNCHANGED << active_generations, task, ws_vars, notifier_log, env_vars, lib_vars >>

get_generation_history(limit, user_id) ==
    /\ response' = HistoryResponse(limit, user_id)
    /\ UNCHANGED << job_vars, ws_vars, notifier_log, env_vars, lib_vars >>

(***************************************************************************)
(* PromptEngineer (core/ai_engine/prompt_engineer.py)                      *)
(***************************************************************************)
\* AIModel
GPT_4_TURBO == "gpt-4-turbo-preview"
GPT_4 == "gpt-4"
GPT_3_5_TURBO == "gpt-3.5-turbo"
CLAUDE_3_OPUS == "claude-3-opus"

\* The models _execute_prompt sends to _call_openai; every other model goes
\* to _call_fallback_model.
OpenAIModels == { GPT_4_TURBO, GPT_4, GPT_3_5_TURBO }

\* load_prompt_templates: templates_cache.  slots are the replacement
\* fields of the template text, in the order they first appear.
templates_cache ==
    [app_analysis |->
        [name |-> "app_analysis", type |-> "analysis",
         slots |-> << "prompt", "preferences" >>,
         constraints |->
             [max_features |-> 15, min_features |-> 3,
              valid_categories |->
                  << "productivity", "utility", "entertainment", "business",
                     "education", "social", "health", "finance", "travel",
                     "shopping", "news", "photography", "music", "sports",
                     "weather", "food", "lifestyle" >>,
              valid_frameworks |->
                  << "react_native", "flutter", "kivy", "cordova",
                     "native_android" >>],
         model_preferences |-> << GPT_4_TURBO, GPT_4, CLAUDE_3_OPUS >>,
         max_tokens |-> 3000],
     app_architecture |->
        [name |-> "app_architecture", type |-> "architecture",
         slots |-> << "app_spec", "framework", "complexity" >>,
         constraints |->
             [min_components |-> 5, min_screens |-> 2, max_screens |-> 20],
         model_preferences |-> << GPT_4_TURBO, CLAUDE_3_OPUS >>,
         max_tokens |-> 4000],
     code_generation |->
        [name |-> "code_generation", type |-> "code_generation",
         slots |-> << "framework", "app_spec", "architecture", "component" >>,
         constraints |-> [min_files |-> 1, max_files |-> 10],
         model_preferences |-> << GPT_4_TURBO, GPT_4 >>,
         max_tokens |-> 6000]]

\* The _execute_prompt calls of the model: a template and its variables.
\* Two calls render the same template to different texts; one leaves a
\* slot of its template unbound.
ExecuteCalls ==
    { [template |-> "app_analysis",
       variables |-> [prompt |-> "todo app", preferences |-> "{}"]],
      [template |-> "code_generation",
       variables |-> [framework |-> "flutter", app_spec |-> "{}",
                      architecture |-> "{}", component |-> "App"]],
      [template |-> "code_generation",
       variables |-> [framework |-> "flutter", app_spec |-> "{}",
                      architecture |-> "{}", component |-> "Login"]],
      [template |-> "app_architecture",
       variables |-> [app_spec |-> "{}", framework |-> "flutter"]] }

\* The keys the PromptEngineer is constructed with.
ApiKeys == { None, "sk-key" }

\* What the provider sends back as message content: a JSON text, or a text
\* that is no JSON and holds a code keyword.
JsonContent == "{\"name\": \"Notes\"}"
CodeContent == "export function App() {}"
Contents == { JsonContent, CodeContent }

\* The outcomes of one awaited _call_openai: it raises, or it returns some
\* content.
OpenAIRaises == [kind |-> "raise"]
OpenAIReturns(content) ==
    [kind |-> "return", content |-> content, tokens_used |-> 42]
OpenAIReplies == { OpenAIRaises } \cup { OpenAIReturns(c) : c \in Contents }

\* template.template.format(**variables): the text with every slot filled
\* in, or KeyError when a slot has no variable.
Render(template, variables) ==
    IF \E i \in DOMAIN template.slots :
           template.slots[i] \notin DOMAIN variables
    THEN Raise("KeyError")
    ELSE Return(<< template.name >> \o
                [i \in DOMAIN template.slots |-> variables[template.slots[i]]])

\* hashlib.md5(formatted_prompt.encode()).hexdigest(): equal texts have
\* equal digests, and the texts of the model have distinct digests.
Md5(formatted_prompt) == << "md5", formatted_prompt >>

\* The texts of the model that are JSON documents.
JsonTexts ==
    { JsonContent,
      "{\"name\": \"Generated App\"}",
      "{\"name\": \"Test App\", \"category\": \"utility\"}",
      "{}",
      "[]",
      "42" }

\* json.loads(response) succeeds.
IsJson(content) == content \in JsonTexts

\* bool(value) of a dict: an empty dict is false.
Truthy(value) == value # EmptyDict

\* any(keyword in response.lower() ...) for the code keywords.
HasCodeKeyword(content) ==
    \E keyword \in { "function", "class", "import", "export" } :
        Contains(Lower(content), keyword)

\* _calculate_confidence, in tenths.
_calculate_confidence(content, template) ==
    IF template.type \in { "analysis", "architecture" }
    THEN IF IsJson(content)
         THEN LET confidence ==
                      8 + (IF Truthy(template.constraints) THEN 1 ELSE 0)
              IN  IF confidence < 10 THEN confidence ELSE 10
         ELSE 3
    ELSE IF template.type = "code_generation"
    THEN IF HasCodeKeyword(content) THEN 7 ELSE 5
    ELSE 6

\* _call_fallback_model: a canned response by template type; it never
\* raises and never suspends.
_call_fallback_model(template) ==
    IF template.type = "analysis"
    THEN [content |-> "{\"name\": \"Generated App\"}", tokens_used |-> 500]
    ELSE [content |->
              "Fallback response - please configure AI models properly",
          tokens_used |-> 100]

\* AIResponse(...), without the measured response_time.
AIResponse(reply, model, prompt_hash, template) ==
    [content |-> reply.content,
     model |-> model,
     prompt_hash |-> prompt_hash,
     tokens_used |-> reply.tokens_used,
     confidence_score |-> _calculate_confidence(reply.content, template)]

\* Candidate with the preference list read from its end.
CandidateReversed(template, i) ==
    template.model_preferences[Len(template.model_preferences) + 1 - i]

\* for model in template.model_preferences: the i-th candidate.
Candidate(template, i) == template.model_preferences[i]

\* The for loop from the i-th candidate on, as far as it runs without
\* suspending.  _call_openai raises at once when there is no client;
\* with a client the loop suspends in it ("await"); _call_fallback_model
\* returns at once ("return"); after the last candidate the loop is left
\* ("exhausted").  invoked lists the candidates called on the way, failed
\* those of them whose call raised (the "Model ... failed" warnings).
RECURSIVE TryModels(_, _, _, _)
TryModels(openai_client, template, prompt_hash, i) ==
    IF i > Len(template.model_preferences)
    THEN [kind |-> "exhausted", i |-> i, invoked |-> << >>,
          failed |-> << >>]
    ELSE LET model == Candidate(template, i)
         IN  IF model \in OpenAIModels
             THEN IF openai_client
                  THEN [kind |-> "await", i |-> i, invoked |-> << model >>,
                        failed |-> << >>]
                  ELSE LET rest == TryModels(openai_client, template,
                                             prompt_hash, i + 1)
                       IN  [rest EXCEPT !.invoked = << model >> \o @,
                                        !.failed = << model >> \o @]
             ELSE [kind |-> "return", i |-> i, invoked |-> << model >>,
                   failed |-> << >>,
                   response |-> AIResponse(_call_fallback_model(template),
                                           model, prompt_hash, template)]

\* PromptEngineer(openai_api_key)
PromptEngineer_init(openai_api_key) ==
    /\ ~prompt_engineer.constructed
    /\ prompt_engineer' =
           [constructed |-> TRUE,
            openai_client |-> (openai_api_key # None /\ openai_api_key # ""),
            response_cache |-> EmptyDict]
    /\ UNCHANGED << job_vars, ws_vars, notifier_log, env_vars, response,
                    executions, validate_call, analysis_call,
                    engine_run, engineer_call >>

\* Exhausted with the canned response returned in place of the exception.
ExhaustedReturnsCanned(e, execution) ==
    LET fallback == AIResponse(_call_fallback_model(
                                   templates_cache[execution.call.template]),
                               CLAUDE_3_OPUS, execution.prompt_hash,
                               templates_cache[execution.call.template])
    IN  /\ executions' = [executions EXCEPT ![e] =
               [execution EXCEPT !.pc = "returned", !.result = fallback]]
        /\ prompt_engineer' =
               [prompt_engineer EXCEPT !.response_cache =
                   DictSet(@, execution.prompt_hash, fallback)]

\* Exhausted with the cache entry of the prompt dropped on the way out.
ExhaustedEvicts(e, execution) ==
    /\ executions' = [executions EXCEPT ![e] =
           [execution EXCEPT !.pc = "raised",
                             !.error = "All AI models failed to respond"]]
    /\ prompt_engineer' =
           [prompt_engineer EXCEPT !.response_cache =
               IF execution.prompt_hash \in DOMAIN @
               THEN DictDel(@, execution.prompt_hash)
               ELSE @]

\* raise Exception("All AI models failed to respond")
Exhausted(e, execution) ==
    /\ executions' = [executions EXCEPT ![e] =
           [execution EXCEPT !.pc = "raised",
                             !.error = "All AI models failed to respond"]]
    /\ UNCHANGED prompt_engineer

\* self.response_cache[prompt_hash] = ai_response; return ai_response
Stored(e, execution, ai_response) ==
    /\ prompt_engineer' =
           [prompt_engineer EXCEPT !.response_cache =
               DictSet(@, execution.prompt_hash, ai_response)]
    /\ executions' = [executions EXCEPT ![e] =
           [execution EXCEPT !.pc = "returned", !.result = ai_response]]

\* The loop goes on from candidate i until it suspends, returns or is
\* left.
Continue(e, execution, i) ==
    LET template == templates_cache[execution.call.template]
        outcome == TryModels(prompt_engineer.openai_client, template,
                             execution.prompt_hash, i)
        ran == [execution EXCEPT !.i = outcome.i,
                                 !.invoked = @ \o outcome.invoked,
                                 !.failed = @ \o outcome.failed]
    IN  CASE outcome.kind = "await" ->
                 /\ executions' = [executions EXCEPT ![e] =
                        [ran EXCEPT !.pc = "await"]]
                 /\ UNCHANGED prompt_engineer
          [] outcome.kind = "return" -> Stored(e, ran, outcome.response)
          [] outcome.kind = "exhausted" -> Exhausted(e, ran)

NewExecution(call, prompt_hash) ==
    [pc |-> "begin", call |-> call, prompt_hash |-> prompt_hash, i |-> 0,
     invoked |-> << >>, failed |-> << >>, result |-> None, error |-> None,
     hit |-> FALSE]

\* _execute_prompt_begin without the look into the cache.
_execute_prompt_begin_uncached(e, call) ==
    /\ prompt_engineer.constructed
    /\ executions[e].pc = "idle"
    /\ LET template == templates_cache[call.template]
           formatted_prompt == Render(template, call.variables)
       IN  IF ~formatted_prompt.ok
           THEN /\ executions' = [executions EXCEPT ![e] =
                       [NewExecution(call, None) EXCEPT
                            !.pc = "raised", !.error = formatted_prompt.error]]
                /\ UNCHANGED prompt_engineer
           ELSE Continue(e, NewExecution(call, Md5(formatted_prompt.value)), 1)
    /\ UNCHANGED << job_vars, ws_vars, notifier_log, env_vars, response,
                    validate_call, analysis_call,
                    engine_run, engineer_call >>

\* _execute_prompt is called: the text is rendered and hashed, the cache is
\* looked into, and on a miss the loop runs up to its first suspension.
_execute_prompt_begin(e, call) ==
    /\ prompt_engineer.constructed
    /\ executions[e].pc = "idle"
    /\ LET template == templates_cache[call.template]
           formatted_prompt == Render(template, call.variables)
       IN  IF ~formatted_prompt.ok
           THEN /\ executions' = [executions EXCEPT ![e] =
                       [NewExecution(call, None) EXCEPT
                            !.pc = "raised", !.error = formatted_prompt.error]]
                /\ UNCHANGED prompt_engineer
           ELSE LET prompt_hash == Md5(formatted_prompt.value)
                IN  IF prompt_hash \in DOMAIN prompt_engineer.response_cache
                    THEN /\ executions' = [executions EXCEPT ![e] =
                                [NewExecution(call, prompt_hash) EXCEPT
                                     !.pc = "returned",
                                     !.hit = TRUE,
                                     !.result = prompt_engineer
                                                 .response_cache[prompt_hash]]]
                         /\ UNCHANGED prompt_engineer
                    ELSE Continue(e, NewExecution(call, prompt_hash), 1)
    /\ UNCHANGED << job_vars, ws_vars, notifier_log, env_vars, response,
                    validate_call, analysis_call,
                    engine_run, engineer_call >>

\* The awaited _call_openai of a call is over: its response is stored and
\* returned, or its exception is logged and the loop goes on.
_execute_prompt_resume(e, reply) ==
    /\ executions[e].pc = "await"
    /\ LET execution == executions[e]
           template == templates_cache[execution.call.template]
       IN  IF reply.kind = "return"
           THEN Stored(e, execution,
                       AIResponse(reply, Candidate(template, execution.i),
                                  execution.prompt_hash, template))
           ELSE Continue(e,
                         [execution EXCEPT !.failed =
                              Append(@, Candidate(template, execution.i))],
                         execution.i + 1)
    /\ UNCHANGED << job_vars, ws_vars, notifier_log, env_vars, response,
                    validate_call, analysis_call,
                    engine_run, engineer_call >>

(***************************************************************************)
(* PromptEngineer._validate_app_specification                              *)
(***************************************************************************)
\* JSON values other than strings, integers and lists.
JBool(v) == [t |-> "bool", v |-> v]
JFloat(v) == [t |-> "float", v |-> v]
\* None (JSON null), and the mark of a field the dict does not have.
JNone(t) == [t |-> t, v |-> None]
JDict(v) == [t |-> "dict", v |-> v]

required_fields ==
    << "name", "description", "category", "framework", "features" >>

valid_categories ==
    { "productivity", "utility", "entertainment", "business", "education",
      "social", "health", "finance", "travel", "shopping", "news",
      "photography", "music", "sports", "weather", "food", "lifestyle" }

valid_frameworks ==
    { "react_native", "flutter", "kivy", "cordova", "native_android" }

\* _get_default_value(field), for the fields the validation asks for.
_get_default_value(field) ==
    CASE field = "name" -> JStr("Generated App")
      [] field = "description" -> JStr("A mobile application")
      [] field = "category" -> JStr("utility")
      [] field = "framework" -> JStr("react_native")
      [] field = "features" -> JList(<< "basic_ui" >>)
      [] OTHER -> JStr("")

\* for field in required_fields: a missing field gets its default.
WithRequiredFields(app_spec) ==
    [field \in Range(required_fields) \ DOMAIN app_spec |->
        _get_default_value(field)] @@ app_spec

\* value not in valid_...: the value is none of the strings of the list.
NotIn(value, valid) == ~(value.t = "str" /\ value.v \in valid)

\* CoerceCategory with every category left as it is.
CoerceCategoryKept(app_spec) == app_spec

\* if app_spec["category"] not in valid_categories: ... = "utility"
CoerceCategory(app_spec) ==
    IF NotIn(app_spec["category"], valid_categories)
    THEN [app_spec EXCEPT !["category"] = JStr("utility")]
    ELSE app_spec

\* if app_spec["framework"] not in valid_frameworks: ... = "react_native"
CoerceFramework(app_spec) ==
    IF NotIn(app_spec["framework"], valid_frameworks)
    THEN [app_spec EXCEPT !["framework"] = JStr("react_native")]
    ELSE app_spec

\* isinstance(value, int): Python's bool is a subclass of int.
IsInstanceInt(value) == value.t \in { "num", "bool" }

\* The integer a value counts as in min and max: True is 1, False is 0.
IntOf(value) ==
    IF value.t = "bool" THEN (IF value.v THEN 1 ELSE 0) ELSE value.v

\* max(1, min(10, level)): of equal arguments min and max return the
\* first, so a bool never comes out of max(1, ...).
Clamp(level) ==
    LET inner == IF IntOf(level) < 10 THEN level ELSE JNum(10)
    IN  IF IntOf(inner) > 1 THEN inner ELSE JNum(1)

\* The complexity level: 5 when missing or no int, then clamped.
ClampComplexity(app_spec) ==
    LET level == IF "complexity_level" \notin DOMAIN app_spec
                    \/ ~IsInstanceInt(app_spec["complexity_level"])
                 THEN JNum(5)
                 ELSE app_spec["complexity_level"]
    IN  ("complexity_level" :> Clamp(level)) @@ app_spec

\* _validate_app_specification(app_spec): the dict is completed, coerced
\* and returned; an argument that is no dict makes the item assignment or
\* the membership test raise TypeError.
_validate_app_specification(app_spec) ==
    IF app_spec.t # "dict"
    THEN Raise("TypeError")
    ELSE Return(JDict(ClampComplexity(CoerceFramework(CoerceCategory(
                          WithRequiredFields(app_spec.v))))))

\* The values a field of the argument holds; "absent" marks a dict without
\* the field.
Opt(field, value) == IF value.t = "absent" THEN EmptyDict ELSE (field :> value)

NameValue(n) ==
    CASE n = 1 -> JNone("absent")
      [] n = 2 -> JStr("Test App")

CategoryValue(c) ==
    CASE c = 1 -> JNone("absent")
      [] c = 2 -> JStr("finance")
      [] c = 3 -> JStr("invalid_category")
      [] c = 4 -> JNone("null")
      [] c = 5 -> JList(<< "utility" >>)

FrameworkValue(f) ==
    CASE f = 1 -> JNone("absent")
      [] f = 2 -> JStr("flutter")
      [] f = 3 -> JStr("invalid_framework")
      [] f = 4 -> JNum(3)

ComplexityValue(l) ==
    CASE l = 1 -> JNone("absent")
      [] l = 2 -> JNone("null")
      [] l = 3 -> JStr("7")
      [] l = 4 -> JFloat("7.5")
      [] l = 5 -> JBool(TRUE)
      [] l = 6 -> JBool(FALSE)
      [] OTHER -> JNum(l - 10)

\* The mapping with the n-th name, c-th category, f-th framework and l-th
\* complexity level.
AppSpecInput(n, c, f, l) ==
    JDict(Opt("name", NameValue(n)) @@ Opt("category", CategoryValue(c))
              @@ Opt("framework", FrameworkValue(f))
              @@ Opt("complexity_level", ComplexityValue(l)))

\* The complexity levels that are integers, as ComplexityValue numbers them.
IntegerLevels == { 7, 10, 11, 17, 20, 21 }

\* One call of _validate_app_specification: its argument and its outcome.
Validated(app_spec) ==
    [called |-> TRUE, app_spec |-> app_spec,
     returned |-> _validate_app_specification(app_spec)]

\* The call with the mapping AppSpecInput(n, c, f, l).
validate(n, c, f, l) ==
    /\ validate_call' = Validated(AppSpecInput(n, c, f, l))
    /\ UNCHANGED << job_vars, ws_vars, notifier_log, env_vars, response,
                    engineer_vars, analysis_call,
                    engine_run, engineer_call >>

\* The call with what json.loads returns when the model answers with a
\* list.
validate_list ==
    /\ validate_call' = Validated(JList(<< >>))
    /\ UNCHANGED << job_vars, ws_vars, notifier_log, env_vars, response,
                    engineer_vars, analysis_call,
                    engine_run, engineer_call >>

(***************************************************************************)
(* TextToAPKEngine.analyze_prompt on its own                               *)
(***************************************************************************)
AnalysisPrompts ==
    { "Create a simple calculator app with basic arithmetic operations",
      "Build a todo list manager",
      "Track my budget and expense with cloud sync",
      "A high performance photo game",
      "" }

AnalysisPreferences ==
    { EmptyDict,
      [framework |-> JStr("flutter")],
      [framework |-> JStr("swift")],
      [category |-> JStr("pets")] }

analyze(prompt, user_preferences, openai_client, model_reply) ==
    /\ analysis_call' =
           [called |-> TRUE, prompt |-> prompt,
            user_preferences |-> user_preferences,
            openai_client |-> openai_client, model_reply |-> model_reply,
            returned |-> analyze_prompt(prompt, user_preferences,
                                        openai_client, model_reply)]
    /\ UNCHANGED << job_vars, ws_vars, notifier_log, env_vars, response,
                    engineer_vars, validate_call,
                    engine_run, engineer_call >>

(***************************************************************************)
(* PromptEngineer: scoring a response, and parsing what the model answered *)
(***************************************************************************)
\* PromptType, in declaration order.
PromptTypes ==
    << "analysis", "architecture", "code_generation", "optimization",
       "testing", "documentation" >>

\* json.loads on the texts of the model: the parsed document, or
\* JSONDecodeError.
json_loads(content) ==
    CASE content = JsonContent -> Return(JDict([name |-> JStr("Notes")]))
      [] content = "{\"name\": \"Generated App\"}" ->
             Return(JDict([name |-> JStr("Generated App")]))
      [] content = "{\"name\": \"Test App\", \"category\": \"utility\"}" ->
             Return(JDict([name |-> JStr("Test App"),
                           category |-> JStr("utility")]))
      [] content = "{}" -> Return(JDict(EmptyDict))
      [] content = "[]" -> Return(JList(<< >>))
      [] content = "42" -> Return(JNum(42))
      [] OTHER -> Raise("JSONDecodeError")

\* The contents a response carries.
ContentValue(c) ==
    CASE c = 1 -> "{\"name\": \"Test App\", \"category\": \"utility\"}"
      [] c = 2 -> "{}"
      [] c = 3 -> "[]"
      [] c = 4 -> "42"
      [] c = 5 -> JsonContent
      [] c = 6 -> "This is not JSON"
      [] c = 7 -> "Invalid JSON response"
      [] c = 8 -> CodeContent

\* The constraints of a template: none, the required fields of the test
\* suite, or those of the app_analysis template.
ConstraintsValue(k) ==
    CASE k = 1 -> EmptyDict
      [] k = 2 -> [required_fields |-> << "name", "category" >>]
      [] k = 3 -> templates_cache.app_analysis.constraints

\* The template with the t-th type and the k-th constraints.
ScoredTemplate(t, k) ==
    [type |-> PromptTypes[t], constraints |-> ConstraintsValue(k)]

\* One call of _calculate_confidence: its arguments and its score.
Scored(content, template) ==
    [called |-> TRUE, method |-> "_calculate_confidence",
     content |-> content, template |-> template,
     returned |-> _calculate_confidence(content, template)]

engineer_call_unchanged ==
    UNCHANGED << job_vars, ws_vars, notifier_log, env_vars, response,
                 engineer_vars, validate_call, analysis_call, engine_run >>

\* prompt_engineer._calculate_confidence(response, template)
calculate_confidence(c, t, k) ==
    /\ engineer_call' = Scored(ContentValue(c), ScoredTemplate(t, k))
    /\ engineer_call_unchanged

\* What _execute_prompt returns when the model answered with the content.
ResponseWith(content, template) ==
    AIResponse(OpenAIReturns(content), GPT_4, Md5(<< template.name >>),
               template)

\* analyze_app_prompt with the except clause left out.
analyze_app_prompt_uncaught(ai_response) ==
    LET app_spec == json_loads(ai_response.content)
    IN  IF ~app_spec.ok THEN app_spec
        ELSE _validate_app_specification(app_spec.value)

\* analyze_app_prompt from the return of _execute_prompt on: the parsed and
\* validated specification, or the failure result when json.loads raises
\* JSONDecodeError; any other exception leaves the method.
analyze_app_prompt(ai_response) ==
    LET app_spec == json_loads(ai_response.content)
        validated == _validate_app_specification(app_spec.value)
    IN  IF ~app_spec.ok
        THEN Return([success |-> FALSE,
                     error |-> "Invalid AI response format",
                     raw_response |-> ai_response.content])
        ELSE IF ~validated.ok THEN validated
        ELSE Return([success |-> TRUE,
                     app_specification |-> validated.value,
                     ai_metadata |->
                         [model |-> ai_response.model,
                          confidence |-> ai_response.confidence_score]])

\* The app_spec dicts generate_architecture is called with.
ArchitectureSpecValue(a) ==
    CASE a = 1 -> EmptyDict
      [] a = 2 -> [framework |-> JStr("flutter")]
      [] a = 3 -> [framework |-> JStr("cordova")]

\* _enhance_architecture: build_config is set for three frameworks, and the
\* item assignment raises TypeError unless the architecture is a dict.
_enhance_architecture(architecture, app_spec) ==
    LET framework == GetOr(app_spec, "framework", JStr("react_native"))
        build_config ==
            CASE framework = JStr("react_native") ->
                     [metro_config |-> TRUE, babel_config |-> TRUE,
                      typescript |-> TRUE]
              [] framework = JStr("flutter") ->
                     [pubspec_yaml |-> TRUE, dart_analysis |-> TRUE,
                      material_design |-> TRUE]
              [] framework = JStr("kivy") ->
                     [buildozer_spec |-> TRUE, python_requirements |-> TRUE,
                      kv_files |-> TRUE]
    IN  IF framework \notin
               { JStr("react_native"), JStr("flutter"), JStr("kivy") }
        THEN Return(architecture)
        ELSE IF architecture.t # "dict" THEN Raise("TypeError")
        ELSE Return(JDict(DictSet(architecture.v, "build_config",
                                  build_config)))

\* PromptEngineer.generate_architecture from the return of _execute_prompt
\* on.
PromptEngineer_generate_architecture(app_spec, ai_response) ==
    LET architecture == json_loads(ai_response.content)
        enhanced == _enhance_architecture(architecture.value, app_spec)
    IN  IF ~architecture.ok
        THEN Return([success |-> FALSE,
                     error |-> "Invalid architecture response",
                     raw_response |-> ai_response.content])
        ELSE IF ~enhanced.ok THEN enhanced
        ELSE Return([success |-> TRUE,
                     architecture |-> enhanced.value,
                     ai_metadata |-> [model |-> ai_response.model]])

\* One call of a parsing method: the content the model answered with and
\* how the method ended.
Parsed(method, content, returned) ==
    [called |-> TRUE, method |-> method, content |-> content,
     returned |-> returned]

\* await prompt_engineer.analyze_app_prompt(prompt)
call_analyze_app_prompt(c) ==
    /\ engineer_call' =
           Parsed("analyze_app_prompt", ContentValue(c),
                  analyze_app_prompt(
                      ResponseWith(ContentValue(c),
                                   templates_cache.app_analysis)))
    /\ engineer_call_unchanged

\* await prompt_engineer.generate_architecture(app_spec)
call_generate_architecture(c, a) ==
    /\ engineer_call' =
           Parsed("generate_architecture", ContentValue(c),
                  PromptEngineer_generate_architecture(
                      ArchitectureSpecValue(a),
                      ResponseWith(ContentValue(c),
                                   templates_cache.app_architecture)))
    /\ engineer_call_unchanged

(***************************************************************************)
(* ReactNativeBuilder._sanitize_project_name                               *)
(* (core/builders/react_native_builder.py)                                 *)
(***************************************************************************)
\* The names the import statements of the module bind.
ModuleImports ==
    { "os", "json", "asyncio", "logging", "subprocess", "tempfile", "shutil",
      "Dict", "List", "Optional", "Any", "Tuple", "Path", "zipfile", "time" }

Digits == "0123456789"

\* c is one of the characters of chars.
InString(c, chars) == \E i \in 1..Len(chars) : SubSeq(chars, i, i) = c

\* str.isalpha() of an ASCII character.
IsAlpha(c) == InString(c, LowerCase) \/ InString(c, UpperCase)

\* re.sub(r'[^a-zA-Z0-9]', '', name): the letters and digits of the name.
RECURSIVE ReSubNonAlnum(_)
ReSubNonAlnum(name) ==
    IF Len(name) = 0 THEN ""
    ELSE LET c == SubSeq(name, 1, 1)
         IN  (IF IsAlpha(c) \/ InString(c, Digits) THEN c ELSE "")
                 \o ReSubNonAlnum(SubSeq(name, 2, Len(name)))

\* The body of _sanitize_project_name once re.sub can be called.
Sanitized(name) ==
    LET sanitized == ReSubNonAlnum(name)
        prefixed == IF sanitized # "" /\ ~IsAlpha(SubSeq(sanitized, 1, 1))
                    THEN "App" \o sanitized
                    ELSE sanitized
    IN  IF prefixed # "" THEN prefixed ELSE "GeneratedApp"

\* _sanitize_project_name: the first statement evaluates the global name
\* re, which raises NameError unless the module has imported it.
_sanitize_project_name(name) ==
    IF "re" \notin ModuleImports
    THEN Raise("name 're' is not defined")
    ELSE Return(Sanitized(name))

\* The characters names are made of: letters, a space, a digit, a sign.
NameChar(i) ==
    CASE i = 0 -> ""
      [] i = 1 -> "M"
      [] i = 2 -> "y"
      [] i = 3 -> " "
      [] i = 4 -> "1"
      [] i = 5 -> "!"

\* The names of test_sanitize_project_name.
TestName(n) ==
    CASE n = 1 -> "My App Name"
      [] n = 2 -> "App with 123 numbers"
      [] n = 3 -> "Special!@#$%Characters"
      [] n = 4 -> "123StartWithNumber"
      [] n = 5 -> ""

\* One call of _sanitize_project_name: its argument and how it ended.
SanitizeCall(name) ==
    [called |-> TRUE, method |-> "_sanitize_project_name", name |-> name,
     returned |-> _sanitize_project_name(name)]

\* builder._sanitize_project_name(name) with a name of up to three
\* characters.
sanitize_project_name(i, j, k) ==
    /\ engineer_call' = SanitizeCall(NameChar(i) \o NameChar(j) \o NameChar(k))
    /\ engineer_call_unchanged

\* builder._sanitize_project_name(input_name) of the test suite.
sanitize_test_case(n) ==
    /\ engineer_call' = SanitizeCall(TestName(n))
    /\ engineer_call_unchanged

(***************************************************************************)
(* TextToAPKEngine.generate_apk_from_text, stage by stage                  *)
(***************************************************************************)
\* What a run writes down: a stage is invoked, awaits _call_openai,
\* returns, or raises.
StageInvoked(stage) == [stage |-> stage, event |-> "invoked"]
StageCalledModel(stage) == [stage |-> stage, event |-> "_call_openai"]
StageReturned(stage) == [stage |-> stage, event |-> "returned"]
StageRaised(stage) == [stage |-> stage, event |-> "raised"]
\* The awaited _call_openai has raised ("raise"), or returned text that
\* json.loads rejects ("text") or parses ("json").
StageModelAnswered(stage, kind) ==
    [stage |-> stage, event |-> "_call_openai:" \o kind]

\* The four awaits of the try block, in program order.
PipelineStages ==
    << "analyze_prompt", "generate_architecture", "generate_source_code",
       "build_apk" >>

\* A local of the run that is not bound yet.
Unbound == [bound |-> FALSE]

\* The call: the coroutine with its arguments, nothing run yet.
NewRun(prompt, user_preferences, openai_client) ==
    [pc |-> "analyze_prompt",
     prompt |-> prompt,
     user_preferences |-> user_preferences,
     openai_client |-> openai_client,
     trace |-> << >>,
     app_spec |-> Unbound,
     architecture |-> Unbound,
     source_code |-> Unbound,
     apk_result |-> Unbound,
     result |-> Unbound]

\* return {"success": True, ...}
SuccessResult(app_spec, apk_result) ==
    [success |-> TRUE,
     app_specification |-> app_spec,
     apk_path |-> apk_result.apk_path,
     build_logs |-> apk_result.build_logs,
     metadata |->
         [generation_time |-> apk_result.build_time,
          framework |-> app_spec.framework,
          complexity |-> app_spec.complexity_level]]

\* except Exception as e: return {"success": False, ...}
FailureResult(e) == [success |-> FALSE, error |-> e.error, stage |-> "unknown"]

\* StageEnds with the next stage invoked before the failure is returned.
StageEndsInvokesNext(run, stage, local, outcome, next) ==
    IF outcome.ok
    THEN [run EXCEPT !.trace = Append(@, StageReturned(stage)),
                     ![local] = outcome.value,
                     !.pc = next]
    ELSE [run EXCEPT !.trace = @ \o << StageRaised(stage), StageInvoked(next) >>,
                     !.result = FailureResult(outcome),
                     !.pc = "returned"]

\* A stage ends: its value is bound to the local and the run goes on to the
\* next await, or its exception is caught and the failure is returned.
StageEnds(run, stage, local, outcome, next) ==
    IF outcome.ok
    THEN [run EXCEPT !.trace = Append(@, StageReturned(stage)),
                     ![local] = outcome.value,
                     !.pc = next]
    ELSE [run EXCEPT !.trace = Append(@, StageRaised(stage)),
                     !.result = FailureResult(outcome),
                     !.pc = "returned"]

\* A stage that has a client awaits _call_openai.
StageAwaitsModel(run, stage) ==
    [run EXCEPT !.trace = @ \o << StageInvoked(stage), StageCalledModel(stage) >>,
                !.pc = stage \o "_await"]

\* The awaited model call of a stage is over.
ModelAnswers(run, stage, reply) ==
    [run EXCEPT !.trace = Append(@, StageModelAnswered(stage, reply.kind))]

\* StageStarts with the stage invoked a second time.
StageStartsTwice(run, stage) ==
    [run EXCEPT !.trace = @ \o << StageInvoked(stage), StageInvoked(stage) >>]

\* A stage without a client runs on without a model call.
StageStarts(run, stage) ==
    [run EXCEPT !.trace = Append(@, StageInvoked(stage))]

engine_unchanged ==
    UNCHANGED << job_vars, ws_vars, notifier_log, env_vars, response,
                 engineer_vars, validate_call, analysis_call, engineer_call >>

\* engine.generate_apk_from_text(prompt, user_preferences)
call_generate_apk_from_text(prompt, user_preferences, openai_client) ==
    /\ engine_run.pc = "idle"
    /\ engine_run' = NewRun(prompt, user_preferences, openai_client)
    /\ engine_unchanged

\* Step 1 up to its first await: with a client the model is asked, without
\* one the keyword analysis answers at once.
step_analyze_prompt ==
    /\ engine_run.pc = "analyze_prompt"
    /\ engine_run' =
           IF engine_run.openai_client
           THEN StageAwaitsModel(engine_run, "analyze_prompt")
           ELSE StageEnds(StageStarts(engine_run, "analyze_prompt"),
                          "analyze_prompt", "app_spec",
                          analyze_prompt(engine_run.prompt,
                                         engine_run.user_preferences,
                                         FALSE, CallRaises),
                          "generate_architecture")
    /\ engine_unchanged

\* Step 1 after the model has answered.
step_analyze_prompt_reply(model_reply) ==
    /\ engine_run.pc = "analyze_prompt_await"
    /\ engine_run' =
           StageEnds(ModelAnswers(engine_run, "analyze_prompt", model_reply),
                     "analyze_prompt", "app_spec",
                     analyze_prompt(engine_run.prompt,
                                    engine_run.user_preferences,
                                    TRUE, model_reply),
                     "generate_architecture")
    /\ engine_unchanged

\* Step 2 up to its first await: the prompt is formatted (which may raise),
\* then the model is asked or the template architecture returned.
step_generate_architecture ==
    /\ engine_run.pc = "generate_architecture"
    /\ LET formatted ==
               generate_architecture(engine_run.app_spec, FALSE, CallRaises)
       IN  engine_run' =
               IF engine_run.openai_client /\ formatted.ok
               THEN StageAwaitsModel(engine_run, "generate_architecture")
               ELSE StageEnds(StageStarts(engine_run, "generate_architecture"),
                              "generate_architecture", "architecture",
                              formatted, "generate_source_code")
    /\ engine_unchanged

\* Step 2 after the model has answered.
step_generate_architecture_reply(model_reply) ==
    /\ engine_run.pc = "generate_architecture_await"
    /\ engine_run' =
           StageEnds(ModelAnswers(engine_run, "generate_architecture",
                                  model_reply),
                     "generate_architecture", "architecture",
                     generate_architecture(engine_run.app_spec, TRUE,
                                           model_reply),
                     "generate_source_code")
    /\ engine_unchanged

\* Step 3: the builder of the framework generates the code.
step_generate_source_code ==
    /\ engine_run.pc = "generate_source_code"
    /\ engine_run' =
           StageEnds(StageStarts(engine_run, "generate_source_code"),
                     "generate_source_code", "source_code",
                     generate_source_code(engine_run.app_spec,
                                          engine_run.architecture),
                     "build_apk")
    /\ engine_unchanged

\* Step 4: the builder builds the APK, and the result is returned.
step_build_apk ==
    /\ engine_run.pc = "build_apk"
    /\ LET apk_result == build_apk(engine_run.app_spec, engine_run.source_code)
           built == StageEnds(StageStarts(engine_run, "build_apk"),
                              "build_apk", "apk_result", apk_result, "returned")
       IN  engine_run' =
               IF apk_result.ok
               THEN [built EXCEPT !.result =
                        SuccessResult(engine_run.app_spec, apk_result.value)]
               ELSE built
    /\ engine_unchanged

(***************************************************************************)
(* The specifications                                                      *)
(***************************************************************************)
Submit == \E request \in Requests : generate_apk(request)

Pipeline ==
    \E generation_id \in JobIds :
        \/ process_generation_start(generation_id)
        \/ process_generation_stage(generation_id)
        \/ process_generation_result(generation_id)

StatusQuery ==
    \E generation_id \in JobIds : get_generation_status(generation_id)

DownloadQuery == \E generation_id \in JobIds : download_apk(generation_id)

WebSockets ==
    \E s \in Sockets :
        \/ \E generation_id \in JobIds : websocket_endpoint(s, generation_id)
        \/ ClientCloses(s)
        \/ websocket_disconnect(s)

\* Each task is a task of the event loop, which runs every task that is
\* ready to run.
TaskStep(generation_id) ==
    \/ process_generation_start(generation_id)
    \/ process_generation_stage(generation_id)
    \/ process_generation_result(generation_id)

Next ==
    \/ Submit
    \/ Pipeline

Spec == Init /\ [][Next]_vars

FairSpec == Spec /\ \A generation_id \in JobIds : WF_vars(TaskStep(generation_id))

NextDownload ==
    \/ Submit
    \/ Pipeline
    \/ DownloadQuery
    \/ FileSystemChanges

SpecDownload == Init /\ [][NextDownload]_vars

NextStatus ==
    \/ Submit
    \/ Pipeline
    \/ StatusQuery

SpecStatus == Init /\ [][NextStatus]_vars

\* The jobs and the status queries, with engine stages that raise.
NextFailures ==
    \/ Submit
    \/ Pipeline
    \/ StatusQuery
    \/ \E generation_id \in JobIds, message \in ExceptionMessages :
           process_generation_result_raised(generation_id, message)

SpecFailures == Init /\ [][NextFailures]_vars

NextWs ==
    \/ Submit
    \/ Pipeline
    \/ WebSockets

SpecWs == Init /\ [][NextWs]_vars

\* Two clients subscribe: a second socket can connect for a job while an
\* earlier one is still registered.
MaxSubscribers == 2
SubscriberSockets == 1..MaxSubscribers

InitSubscribers ==
    /\ active_generations = EmptyDict
    /\ generation_history = EmptyDict
    /\ active_connections = EmptyDict
    /\ sock = [s \in SubscriberSockets |-> NewSocket]
    /\ task = [g \in JobIds |-> NoTask]
    /\ notifier_log = [g \in JobIds |-> << >>]
    /\ files = {}
    /\ response = NoResponse
    /\ prompt_engineer = NoEngineer
    /\ executions = [e \in Execs |-> NoExecution]
    /\ validate_call = NoCall
    /\ analysis_call = NoCall
    /\ engine_run = NoRun
    /\ engineer_call = NoCall

Subscribers ==
    \E s \in SubscriberSockets :
        \/ \E generation_id \in JobIds : websocket_endpoint(s, generation_id)
        \/ ClientCloses(s)
        \/ websocket_disconnect(s)

\* One job is submitted, and the two sockets subscribe to it or to an id
\* that no job has.
NextSubscribers ==
    \/ \E request \in ValidRequests : KnownIds = {} /\ generate_apk(request)
    \/ Pipeline
    \/ Subscribers

SpecSubscribers == InitSubscribers /\ [][NextSubscribers]_vars

HistoryQuery ==
    \E limit \in Limits, user_id \in UserIds :
        get_generation_history(limit, user_id)

NextHistory ==
    \/ Submit
    \/ Pipeline
    \/ HistoryQuery

SpecHistory == Init /\ [][NextHistory]_vars

NextQueries ==
    \/ Submit
    \/ Pipeline
    \/ StatusQuery
    \/ DownloadQuery
    \/ HistoryQuery
    \/ FileSystemChanges

SpecQueries == Init /\ [][NextQueries]_vars

Construct == \E openai_api_key \in ApiKeys : PromptEngineer_init(openai_api_key)

Execute ==
    \E e \in Execs :
        \/ \E call \in ExecuteCalls : _execute_prompt_begin(e, call)
        \/ \E reply \in OpenAIReplies : _execute_prompt_resume(e, reply)

NextExecute ==
    \/ Construct
    \/ Execute

SpecExecute == Init /\ [][NextExecute]_vars

\* The event loop runs every call of _execute_prompt that was made; when
\* the provider answers an awaited call, if ever, is up to the provider.
FairSpecExecute ==
    SpecExecute
        /\ \A e \in Execs :
               WF_vars(\E call \in ExecuteCalls : _execute_prompt_begin(e, call))

NextValidate ==
    \/ \E n \in 1..2, c \in 1..5, f \in 1..4, l \in (1..6) \cup IntegerLevels :
           validate(n, c, f, l)
    \/ validate_list

SpecValidate == Init /\ [][NextValidate]_vars

NextAnalysis ==
    \E prompt \in AnalysisPrompts, user_preferences \in AnalysisPreferences,
       openai_client \in BOOLEAN, model_reply \in ModelReplies :
        analyze(prompt, user_preferences, openai_client, model_reply)

SpecAnalysis == Init /\ [][NextAnalysis]_vars

NextEngine ==
    \/ \E prompt \in AnalysisPrompts,
          user_preferences \in AnalysisPreferences,
          openai_client \in BOOLEAN :
           call_generate_apk_from_text(prompt, user_preferences, openai_client)
    \/ step_analyze_prompt
    \/ \E model_reply \in AnalysisReplies :
           step_analyze_prompt_reply(model_reply)
    \/ step_generate_architecture
    \/ \E model_reply \in ModelReplies :
           step_generate_architecture_reply(model_reply)
    \/ step_generate_source_code
    \/ step_build_apk

SpecEngine == Init /\ [][NextEngine]_vars

NextEngineerCalls ==
    \/ \E c \in 1..8, t \in 1..6, k \in 1..3 : calculate_confidence(c, t, k)
    \/ \E c \in 1..8 : call_analyze_app_prompt(c)
    \/ \E c \in 1..8, a \in 1..3 : call_generate_architecture(c, a)

SpecEngineerCalls == Init /\ [][NextEngineerCalls]_vars

NextSanitize ==
    \/ \E i \in 0..5, j \in 0..5, k \in 0..5 : sanitize_project_name(i, j, k)
    \/ \E n \in 1..5 : sanitize_test_case(n)

SpecSanitize == Init /\ [][NextSanitize]_vars

(***************************************************************************)
(* What a client can learn about a job                                     *)
(***************************************************************************)
\* The record of an accepted job, wherever it is kept.
JobRecord(generation_id) ==
    IF generation_id \in DOMAIN active_generations
    THEN active_generations[generation_id]
    ELSE generation_history[generation_id]

Terminal(generation_id) ==
    /\ generation_id \in KnownIds
    /\ JobRecord(generation_id).status \in {"completed", "failed"}

Completed(generation_id) ==
    /\ generation_id \in KnownIds
    /\ JobRecord(generation_id).status = "completed"

Failed(generation_id) ==
    /\ generation_id \in KnownIds
    /\ JobRecord(generation_id).status = "failed"

\* The status a job shows, "none" before it is accepted.
StatusOf(generation_id) ==
    IF generation_id \in KnownIds
    THEN JobRecord(generation_id).status
    ELSE "none"

\* The events of a job that end it.
TerminalEvent(event) == event.data.status \in {"completed", "failed"}

(***************************************************************************)
(* C1.  Liveness: every request accepted by submit yields a job that,      *)
(* under fair scheduling of its task and with every engine call            *)
(* returning, eventually reaches state completed or state failed.          *)
(* Checked under FairSpec.                                                 *)
(***************************************************************************)
C1_AcceptedJobTerminates ==
    \A generation_id \in JobIds :
        (generation_id \in KnownIds) ~> Terminal(generation_id)

\* C1 witness: one accepted job has completed and another has failed.
C1_Witness ==
    \E g \in JobIds, h \in JobIds :
        /\ Completed(g) /\ task[g].pc = "done"
        /\ Failed(h) /\ task[h].pc = "done"

(***************************************************************************)
(* C2.  State-machine conformance.  As claimed: the status of a job only   *)
(* moves along queued, analyzing, architecting, coding, building,          *)
(* completed, or from a state that is not terminal to failed, and no       *)
(* other status is recorded.                                               *)
(***************************************************************************)
ClaimedChain ==
    << "queued", "analyzing", "architecting", "coding", "building",
       "completed" >>

ClaimedTransitions ==
    { << "none", "queued" >> }
        \cup { << ClaimedChain[i], ClaimedChain[i + 1] >> :
                    i \in 1..(Len(ClaimedChain) - 1) }
        \cup { << ClaimedChain[i], "failed" >> :
                    i \in 1..(Len(ClaimedChain) - 1) }

RecordedTransitions ==
    { << "none", "queued" >>, << "queued", "processing" >>,
      << "processing", "completed" >>, << "processing", "failed" >> }

C3_TerminalAbsorbing ==
    [][\A generation_id \in JobIds :
          Terminal(generation_id) =>
              /\ (generation_id \in KnownIds)'
              /\ JobRecord(generation_id)' = JobRecord(generation_id)]_vars

\* C3 witness: a job has failed and its task has ended, a subscriber has
\* connected to it afterwards and was sent the failed status once more,
\* and another job has completed.
C3_Witness ==
    \E g \in JobIds, h \in JobIds :
        /\ Failed(g) /\ task[g].pc = "done"
        /\ Len(notifier_log[g]) = Len(stages) + 3
        /\ notifier_log[g][Len(stages) + 2].data.status = "failed"
        /\ notifier_log[g][Len(stages) + 3].data.status = "failed"
        /\ Completed(h) /\ task[h].pc = "done"

(***************************************************************************)
(* C4.  Observed progress.  As claimed: the progress a client reads with   *)
(* get_status never decreases, whatever the outcome of the pipeline.       *)
(***************************************************************************)
ObservedProgress(generation_id) ==
    IF generation_id \in KnownIds
    THEN GenerationStatus(generation_id).progress
    ELSE 0

\* C4 as claimed (refuted: a failure sets the progress back to 0).
C4_ClaimedProgressNeverDecreases ==
    [][\A generation_id \in JobIds :
          ObservedProgress(generation_id)' >= ObservedProgress(generation_id)
      ]_vars

\* The published events of a job other than the failed one carry
\* non-decreasing progress.
PublishedProgressMonotone ==
    \A generation_id \in JobIds :
        \A i \in DOMAIN notifier_log[generation_id] :
            \A j \in DOMAIN notifier_log[generation_id] :
                (i < j /\ notifier_log[generation_id][j].data.status # "failed")
                    => notifier_log[generation_id][i].data.progress
                           <= notifier_log[generation_id][j].data.progress

\* C4 as amended: the progress read with get_status and the progress of the
\* published events never decrease while the job has not failed; the
\* failure of a job sets its progress to 0.
C4_ProgressMonotoneUntilFailed ==
    /\ [][\A generation_id \in JobIds :
            IF Failed(generation_id)'
            THEN ObservedProgress(generation_id)' = 0
            ELSE ObservedProgress(generation_id)'
                     >= ObservedProgress(generation_id)]_vars
    /\ []PublishedProgressMonotone

\* C4 witness: a completed job with all its events published, and a failed
\* job whose progress went from 95 to 0.
C4_Witness ==
    \E g \in JobIds, h \in JobIds :
        /\ Completed(g)
        /\ Len(notifier_log[g]) = Len(stages) + 2
        /\ Failed(h)
        /\ ObservedProgress(h) = 0
        /\ notifier_log[h][Len(stages) + 1].data.progress = 95

(***************************************************************************)
(* C5.  In every reachable state the progress of a job, as recorded and    *)
(* as get_status reports it, is within 0..100 and is 100 if and only if    *)
(* the job is completed.                                                   *)
(***************************************************************************)
C5_ProgressRange ==
    \A generation_id \in KnownIds :
        /\ JobRecord(generation_id).progress \in 0..100
        /\ GenerationStatus(generation_id).progress \in 0..100
        /\ JobRecord(generation_id).progress = 100 <=> Completed(generation_id)
        /\ GenerationStatus(generation_id).progress = 100
               <=> GenerationStatus(generation_id).status = "completed"

\* C5 witness: one job is completed at 100 while another, not completed,
\* has reached its highest progress before completion.
C5_Witness ==
    \E g \in JobIds, h \in JobIds :
        /\ Completed(g) /\ GenerationStatus(g).progress = 100
        /\ ~Terminal(h) /\ h \in KnownIds
        /\ GenerationStatus(h).progress = 95

(***************************************************************************)
(* C6.  As claimed: every job that reaches a terminal state has been       *)
(* moved out of the active set into history once its task has ended.       *)
(***************************************************************************)
\* C6 as claimed (refuted: a failed job stays in the active set).
C6_ClaimedTerminalJobsArchived ==
    \A generation_id \in JobIds :
        (Terminal(generation_id) /\ task[generation_id].pc = "done")
            => /\ generation_id \in DOMAIN generation_history
               /\ generation_id \notin DOMAIN active_generations

(***************************************************************************)
(* C7.  Order of the terminal event and the move to history.  As claimed:  *)
(* the terminal event of a job is published before the job is moved from   *)
(* the active set to history.                                              *)
(***************************************************************************)
\* C7 as claimed (refuted: the completed event is sent after the move).
C7_ClaimedPublishedBeforeArchived ==
    \A generation_id \in JobIds :
        \A i \in DOMAIN notifier_log[generation_id] :
            TerminalEvent(notifier_log[generation_id][i])
                => ~notifier_log[generation_id][i].archived

\* C7 as amended: the completed event of a job is published after the job
\* has been moved to history, in the same uninterrupted step; the failed
\* event is published while the job is in the active set; every terminal
\* job has had its terminal event published.
C7_TerminalEventOrder ==
    \A generation_id \in JobIds :
        /\ \A i \in DOMAIN notifier_log[generation_id] :
              LET event == notifier_log[generation_id][i]
              IN  /\ event.data.status = "completed" => event.archived
                  /\ event.data.status = "failed" => ~event.archived
        /\ Terminal(generation_id) =>
              \E i \in DOMAIN notifier_log[generation_id] :
                  notifier_log[generation_id][i].data.status
                      = JobRecord(generation_id).status
        /\ generation_id \in DOMAIN generation_history =>
              \E i \in DOMAIN notifier_log[generation_id] :
                  notifier_log[generation_id][i].data.type = "completed"

\* C7 witness: a completed job in history with its completed event
\* published, and a failed job with its failed event published.
C7_Witness ==
    \E g \in JobIds, h \in JobIds :
        /\ g \in DOMAIN generation_history
        /\ notifier_log[g][Len(notifier_log[g])].data.type = "completed"
        /\ Failed(h)
        /\ notifier_log[h][Len(notifier_log[h])].data.status = "failed"

(***************************************************************************)
(* C8.  A submit whose request text is empty or shorter than 10            *)
(* characters creates no job: the active set, the history set and the      *)
(* tasks are the same after the call as before it.                         *)
(***************************************************************************)
TooShort(request) == Len(request.prompt) < 10

C8_RejectedSubmitCreatesNothing ==
    [][\A request \in Requests :
          (TooShort(request) /\ generate_apk(request))
              => UNCHANGED << active_generations, generation_history, task >>
      ]_vars

\* C8 witness: a submit has just been rejected while a job is running.
C8_Witness ==
    /\ response.status_code = 500
    /\ \E generation_id \in DOMAIN active_generations :
          task[generation_id].pc = "stages"

(***************************************************************************)
(* C9.  As claimed: a submit whose request text is empty or shorter than   *)
(* 10 characters fails with the client error 400, and every request text   *)
(* of 10 or more characters is accepted.                                   *)
(***************************************************************************)
\* C9 as claimed (refuted: the 400 raised by the check is turned into a 500
\* by the handler's own except clause).
C9_ClaimedInvalidRequestIs400 ==
    [][\A request \in Requests :
          generate_apk(request) =>
              IF TooShort(request)
              THEN response'.status_code = 400
              ELSE response'.status_code = 200]_vars

(***************************************************************************)
(* C10.  The answers of get_artifact.  As claimed: NotFound exactly when   *)
(* the id is in neither table, NotReady when the job is known but not      *)
(* completed, ArtifactMissing when it is completed and the file is         *)
(* missing, the artifact otherwise.                                        *)
(***************************************************************************)
NotFound == HTTPException(404, "Generation not found or not completed")
NotReady == HTTPException(400, "APK generation not completed")
ArtifactMissing == HTTPException(404, "APK file not found")

\* C10 as claimed (refuted: a job that is still in the active set is
\* answered NotFound).
C10_ClaimedDownloadAnswers ==
    [][\A generation_id \in JobIds :
          download_apk(generation_id) =>
              /\ response' = NotFound <=> generation_id \notin KnownIds
              /\ response' = NotReady
                     <=> (generation_id \in KnownIds
                            /\ ~Completed(generation_id))]_vars

\* C10 as amended: get_artifact answers NotFound exactly when the id is
\* not in history (unknown, or still in the active set), NotReady when the
\* record in history is not completed, ArtifactMissing when it is
\* completed and the recorded path does not exist, and the recorded
\* artifact otherwise.
C10_DownloadAnswers ==
    [][\A generation_id \in JobIds :
          download_apk(generation_id) =>
              IF generation_id \notin DOMAIN generation_history
              THEN response' = NotFound
              ELSE IF generation_history[generation_id].status # "completed"
              THEN response' = NotReady
              ELSE IF generation_history[generation_id].apk_path \notin files
              THEN response' = ArtifactMissing
              ELSE /\ response'.status_code = 200
                   /\ response'.path
                          = generation_history[generation_id].apk_path
      ]_vars

\* C10 witness: the artifact of a completed job has just been returned
\* while another job, still active, is running.
C10_Witness ==
    /\ response.status_code = 200
    /\ "path" \in DOMAIN response
    /\ \E generation_id \in DOMAIN active_generations :
          task[generation_id].pc = "stages"

(***************************************************************************)
(* C11.  get_status(job_id) fails with NotFound if and only if the id is   *)
(* in neither the active set nor history; for every known job it returns   *)
(* the state, progress, stage description and error of the job's record.   *)
(* Checked under SpecStatus.                                               *)
(***************************************************************************)
C11_StatusAnswers ==
    [][\A generation_id \in JobIds :
          get_generation_status(generation_id) =>
              IF generation_id \notin KnownIds
              THEN response' = HTTPException(404, "Generation not found")
              ELSE /\ response'.status_code = 200
                   /\ response'.generation_id = generation_id
                   /\ response'.status = JobRecord(generation_id).status
                   /\ response'.progress = JobRecord(generation_id).progress
                   /\ response'.current_stage
                          = JobRecord(generation_id).current_stage
                   /\ response'.error
                          = DictGet(JobRecord(generation_id), "error")]_vars

\* C11 witness: the status of a job in history has just been returned
\* while a failed job, whose record holds an error, is in the active set.
C11_Witness ==
    /\ response.status_code = 200
    /\ "current_stage" \in DOMAIN response
    /\ response.generation_id \in DOMAIN generation_history
    /\ response.current_stage = "Completed"
    /\ \E generation_id \in DOMAIN active_generations :
          "error" \in DOMAIN active_generations[generation_id]

(***************************************************************************)
(* C12.  The queries get_status, get_artifact and list_history never       *)
(* change job state: whether they succeed or fail, the active set, the     *)
(* history set, every job record and every task are the same after the     *)
(* call as before it.  Checked under SpecQueries.                          *)
(***************************************************************************)
C12_QueriesMutateNothing ==
    [][(StatusQuery \/ DownloadQuery \/ HistoryQuery)
          => UNCHANGED << active_generations, generation_history, task >>
      ]_vars

\* C12 witness: list_history has just returned the completed job, after
\* get_artifact had failed for want of the file, while a failed job is in
\* the active set.
C12_Witness ==
    /\ response.status_code = 200
    /\ "generations" \in DOMAIN response
    /\ Len(response.generations) = 1
    /\ response.generations[1].id \in DOMAIN generation_history
    /\ files = {}
    /\ \E generation_id \in DOMAIN active_generations :
          active_generations[generation_id].status = "failed"

(***************************************************************************)
(* C13.  list_history(limit, user_id).  As claimed: it returns only        *)
(* terminal records, newest first by creation time, at most limit of       *)
(* them, and with a user_id only the records of that user, for every       *)
(* limit value and every history content.                                  *)
(***************************************************************************)
\* C13 as claimed, a limit below 0 allowing no record (refuted: a negative
\* limit is taken as a position from the end of the list, so with two
\* records in history and limit -1 one record is returned).
C13_ClaimedHistoryListing ==
    [][\A limit \in Limits, user_id \in UserIds :
          get_generation_history(limit, user_id) =>
              LET generations == response'.generations
              IN  /\ Len(generations) <= (IF limit < 0 THEN 0 ELSE limit)
                  /\ \A i \in DOMAIN generations :
                        /\ generations[i].status \in {"completed", "failed"}
                        /\ (user_id # None /\ user_id # "")
                               => generations[i].user_id = user_id
                        /\ \A j \in DOMAIN generations :
                              i < j => generations[i].created_at
                                           >= generations[j].created_at
      ]_vars

(***************************************************************************)
(* What is known of an _execute_prompt call                                *)
(***************************************************************************)
response_cache == prompt_engineer.response_cache

Began(e) == executions[e].pc # "idle"
Returned(e) == executions[e].pc = "returned"
AllModelsExhausted(e) ==
    /\ executions[e].pc = "raised"
    /\ executions[e].error = "All AI models failed to respond"

PreferencesOf(e) ==
    templates_cache[executions[e].call.template].model_preferences

(***************************************************************************)
(* C14.  Cache hit: once an execute for a rendered prompt text has         *)
(* returned, the cache holds a response for that text, and every execute   *)
(* that begins with the same rendered text returns exactly the response    *)
(* the cache holds, invokes no model, and leaves the cache as it is.       *)
(* Checked under SpecExecute.                                              *)
(***************************************************************************)
C14_CacheHit ==
    /\ [](\A e \in Execs :
            Returned(e) =>
                /\ executions[e].prompt_hash \in DOMAIN response_cache
                /\ \E d \in Execs :
                      /\ Returned(d) /\ ~executions[d].hit
                      /\ executions[d].result
                             = response_cache[executions[e].prompt_hash])
    /\ [][\A e \in Execs, call \in ExecuteCalls :
            LET formatted_prompt ==
                    Render(templates_cache[call.template], call.variables)
            IN  (/\ _execute_prompt_begin(e, call)
                 /\ formatted_prompt.ok
                 /\ Md5(formatted_prompt.value) \in DOMAIN response_cache)
                    => /\ executions'[e].pc = "returned"
                       /\ executions'[e].result
                              = response_cache[Md5(formatted_prompt.value)]
                       /\ executions'[e].invoked = << >>
                       /\ UNCHANGED prompt_engineer]_vars

\* C14 witness: an execute answered by an OpenAI model has returned, and a
\* later execute of the same text has returned the same response from the
\* cache without invoking a model.
C14_Witness ==
    \E d \in Execs, e \in Execs :
        /\ Returned(d) /\ ~executions[d].hit
        /\ executions[d].result.model \in OpenAIModels
        /\ Returned(e) /\ executions[e].hit
        /\ executions[e].invoked = << >>
        /\ executions[e].call = executions[d].call
        /\ executions[e].result = executions[d].result

(***************************************************************************)
(* C15.  Within one execute the candidates are invoked strictly in the     *)
(* template's preference order, each at most once; a candidate is invoked  *)
(* only if every earlier one failed; the response is attributed to the     *)
(* first candidate that succeeded, and no candidate is invoked after it.   *)
(* Checked under SpecExecute.                                              *)
(***************************************************************************)
C15_PreferenceOrder ==
    /\ [](\A e \in Execs :
            (Began(e) /\ executions[e].prompt_hash # None) =>
                LET invoked == executions[e].invoked
                    failed == executions[e].failed
                    n == Len(invoked)
                IN  /\ n <= Len(PreferencesOf(e))
                    /\ invoked = SubSeq(PreferencesOf(e), 1, n)
                    /\ executions[e].pc = "await"
                           => n > 0 /\ failed = SubSeq(invoked, 1, n - 1)
                    /\ (Returned(e) /\ ~executions[e].hit)
                           => /\ n > 0
                              /\ failed = SubSeq(invoked, 1, n - 1)
                              /\ executions[e].result.model = invoked[n]
                    /\ (Returned(e) /\ executions[e].hit) => n = 0
                    /\ executions[e].pc = "raised" => failed = invoked)
    /\ [][\A e \in Execs :
            executions[e].pc \in { "returned", "raised" }
                => executions'[e] = executions[e]]_vars

\* C15 witness: the first candidate failed after its call was awaited, the
\* second one answered, and the response names the second.
C15_Witness ==
    \E e \in Execs :
        /\ Returned(e)
        /\ prompt_engineer.openai_client
        /\ executions[e].invoked = << GPT_4_TURBO, GPT_4 >>
        /\ executions[e].failed = << GPT_4_TURBO >>
        /\ executions[e].result.model = GPT_4

(***************************************************************************)
(* C16.  execute fails with AllModelsExhausted if and only if every        *)
(* candidate of the template's preference list failed, and the step in     *)
(* which it fails leaves the response cache unchanged.                     *)
(* Checked under SpecExecute.                                              *)
(***************************************************************************)
C16_AllModelsExhausted ==
    /\ [](\A e \in Execs :
            executions[e].pc \in { "returned", "raised" } =>
                (AllModelsExhausted(e)
                    <=> /\ executions[e].prompt_hash # None
                        /\ ~executions[e].hit
                        /\ executions[e].failed = PreferencesOf(e)))
    /\ [][\A e \in Execs :
            (~AllModelsExhausted(e) /\ AllModelsExhausted(e)')
                => UNCHANGED prompt_engineer]_vars

\* C16 witness: with a client, both candidates of the code generation
\* template were awaited and failed, the call raised, and the cache, which
\* holds the response of another call, has no entry for its prompt.
C16_Witness ==
    \E e \in Execs :
        /\ AllModelsExhausted(e)
        /\ prompt_engineer.openai_client
        /\ executions[e].failed = << GPT_4_TURBO, GPT_4 >>
        /\ executions[e].prompt_hash \notin DOMAIN response_cache
        /\ response_cache # EmptyDict

(***************************************************************************)
(* C17.  Cache entries.  As claimed: once a response is stored under a     *)
(* prompt hash the entry is never replaced or changed, also when executes  *)
(* of the same rendered prompt interleave at their model calls.            *)
(***************************************************************************)
\* C17 as claimed (refuted: two executes that both missed the cache both
\* store their response, and the second store replaces the first).
C17_ClaimedEntriesImmutable ==
    [][prompt_engineer.constructed =>
          \A h \in DOMAIN response_cache :
              /\ h \in DOMAIN response_cache'
              /\ response_cache'[h] = response_cache[h]]_vars

\* C17 as amended: an entry is never removed and is keyed by the hash of
\* the prompt it answers; it is replaced only by the response of an execute
\* of the same rendered prompt that had missed the cache before the entry
\* was stored and was suspended in its model call since (the last store
\* wins); an execute that begins after the entry is stored never changes
\* it.
C17_LastStoreWins ==
    /\ [](prompt_engineer.constructed =>
            \A h \in DOMAIN response_cache : response_cache[h].prompt_hash = h)
    /\ [][prompt_engineer.constructed =>
            \A h \in DOMAIN response_cache :
                /\ h \in DOMAIN response_cache'
                /\ response_cache'[h] # response_cache[h] =>
                      \E e \in Execs :
                          /\ executions[e].pc = "await"
                          /\ executions[e].prompt_hash = h
                          /\ executions'[e].pc = "returned"
                          /\ executions'[e].result = response_cache'[h]]_vars

\* C17 witness: two executes of the same prompt both invoked a model and
\* returned different responses; the cache holds one of them.
C17_Witness ==
    \E d \in Execs, e \in Execs :
        /\ Returned(d) /\ ~executions[d].hit
        /\ Returned(e) /\ ~executions[e].hit
        /\ executions[d].prompt_hash = executions[e].prompt_hash
        /\ executions[d].result # executions[e].result
        /\ response_cache[executions[e].prompt_hash] = executions[e].result

(***************************************************************************)
(* C18.  validate never fails on a mapping: for every input mapping, the   *)
(* empty one and those with missing or out-of-range values included, it    *)
(* returns a specification that has name, description, category,           *)
(* framework and features, with category among the valid categories and    *)
(* framework among the valid frameworks; a value outside these lists       *)
(* becomes 'utility' or 'react_native'.  Checked under SpecValidate.       *)
(***************************************************************************)
C18_ValidateNeverFails ==
    (validate_call.called /\ validate_call.app_spec.t = "dict") =>
        LET given == validate_call.app_spec.v
            returned == validate_call.returned
        IN  /\ returned.ok
            /\ returned.value.t = "dict"
            /\ Range(required_fields) \subseteq DOMAIN returned.value.v
            /\ returned.value.v["category"].t = "str"
            /\ returned.value.v["category"].v \in valid_categories
            /\ returned.value.v["framework"].t = "str"
            /\ returned.value.v["framework"].v \in valid_frameworks
            /\ returned.value.v["category"] =
                   IF "category" \in DOMAIN given
                      /\ given["category"].t = "str"
                      /\ given["category"].v \in valid_categories
                   THEN given["category"]
                   ELSE JStr("utility")
            /\ returned.value.v["framework"] =
                   IF "framework" \in DOMAIN given
                      /\ given["framework"].t = "str"
                      /\ given["framework"].v \in valid_frameworks
                   THEN given["framework"]
                   ELSE JStr("react_native")

\* C18 witness: the empty mapping was validated, and came back with the
\* five required fields at their defaults.
C18_Witness ==
    /\ validate_call.called
    /\ validate_call.app_spec = JDict(EmptyDict)
    /\ validate_call.returned.ok
    /\ validate_call.returned.value.v["category"] = JStr("utility")
    /\ validate_call.returned.value.v["framework"] = JStr("react_native")
    /\ validate_call.returned.value.v["features"] = JList(<< "basic_ui" >>)

(***************************************************************************)
(* C19.  The complexity level validate returns.  As claimed: it is an      *)
(* integer within 1..10; an integer input is clamped to that range, and a  *)
(* missing or non-integer input becomes 5.                                 *)
(***************************************************************************)
\* C19 as claimed (refuted: a boolean input is taken for an integer and
\* comes back as 1, not 5).
C19_ClaimedComplexityLevel ==
    (validate_call.called /\ validate_call.app_spec.t = "dict") =>
        LET given == validate_call.app_spec.v
            level == validate_call.returned.value.v["complexity_level"]
        IN  /\ level.t = "num"
            /\ level.v \in 1..10
            /\ level.v =
                   IF "complexity_level" \in DOMAIN given
                      /\ given["complexity_level"].t = "num"
                   THEN IF given["complexity_level"].v < 1 THEN 1
                        ELSE IF given["complexity_level"].v > 10 THEN 10
                        ELSE given["complexity_level"].v
                   ELSE 5

(***************************************************************************)
(* C20.  Out-of-range categorical values in the analysis stage.  As        *)
(* claimed: for every prompt, every model response and every preference    *)
(* mapping, analyze_prompt returns a specification whose category and      *)
(* framework are members of their enumerations.                            *)
(***************************************************************************)
\* C20 as claimed (refuted: a preference naming an unknown framework makes
\* the keyword analysis raise ValueError, which fails the job).
C20_ClaimedAnalysisNeverFailsOnEnum ==
    analysis_call.called =>
        /\ analysis_call.returned.ok
        /\ analysis_call.returned.value.category \in Range(AppCategory)
        /\ analysis_call.returned.value.framework \in Range(AppFramework)

(***************************************************************************)
(* What a run of generate_apk_from_text has written down                   *)
(***************************************************************************)
Started == engine_run.pc # "idle"
Finished == engine_run.pc = "returned"

\* The positions of the trace where the stage has the event.
At(stage, event) ==
    { i \in DOMAIN engine_run.trace :
          engine_run.trace[i] = [stage |-> stage, event |-> event] }

\* The positions where any stage raised.
RaisedAt ==
    { i \in DOMAIN engine_run.trace : engine_run.trace[i].event = "raised" }

(***************************************************************************)
(* C21.  A stage failure short-circuits the pipeline: once a stage of      *)
(* generate_apk_from_text has raised, no stage is invoked and no model     *)
(* call is made afterwards, the run has returned with success false, and   *)
(* its result carries no artifact path (nor was one bound by build_apk).   *)
(* Checked under SpecEngine.                                               *)
(***************************************************************************)
C21_FailureShortCircuits ==
    (Started /\ RaisedAt # {}) =>
        /\ RaisedAt = { Len(engine_run.trace) }
        /\ Finished
        /\ ~engine_run.result.success
        /\ "apk_path" \notin DOMAIN engine_run.result
        /\ engine_run.apk_result = Unbound
        /\ At("build_apk", "returned") = {}

\* C21 witness: generate_architecture raised after the analysis had
\* returned; the run is over and generate_source_code was never invoked.
C21_Witness ==
    /\ Finished
    /\ At("analyze_prompt", "returned") # {}
    /\ At("generate_architecture", "raised") # {}
    /\ At("generate_source_code", "invoked") = {}
    /\ ~engine_run.result.success

(***************************************************************************)
(* C22.  The stages are strictly sequential: every stage is invoked at     *)
(* most once, a stage is invoked only after the stage before it has        *)
(* returned, and a run that returns success has invoked and completed each *)
(* of analyze_prompt, generate_architecture, generate_source_code and      *)
(* build_apk exactly once, in that order; its result carries the           *)
(* specification, the artifact path and the metadata.  Checked under       *)
(* SpecEngine.                                                             *)
(***************************************************************************)
C22_StagesSequential ==
    Started =>
        /\ \A k \in DOMAIN PipelineStages :
               /\ Cardinality(At(PipelineStages[k], "invoked")) <= 1
               /\ \A i \in At(PipelineStages[k], "returned") :
                      \E j \in At(PipelineStages[k], "invoked") : j < i
        /\ \A k \in 2..Len(PipelineStages) :
               \A i \in At(PipelineStages[k], "invoked") :
                   \E j \in At(PipelineStages[k - 1], "returned") : j < i
        /\ (Finished /\ engine_run.result.success) =>
               /\ \A k \in DOMAIN PipelineStages :
                      /\ Cardinality(At(PipelineStages[k], "invoked")) = 1
                      /\ Cardinality(At(PipelineStages[k], "returned")) = 1
               /\ engine_run.result.app_specification = engine_run.app_spec
               /\ engine_run.result.apk_path = engine_run.apk_result.apk_path
               /\ "metadata" \in DOMAIN engine_run.result

\* C22 witness: a run with a client returned success after both model
\* calls.
C22_Witness ==
    /\ Finished
    /\ engine_run.result.success
    /\ engine_run.result.apk_path = "path/to/app.apk"
    /\ At("analyze_prompt", "_call_openai") # {}
    /\ At("generate_architecture", "_call_openai") # {}
    /\ At("build_apk", "returned") = { Len(engine_run.trace) }

(***************************************************************************)
(* C23.  generate_apk_from_text never raises: every call returns a result  *)
(* with a boolean success, and a result with success false carries an      *)
(* error message; the step of process_generation that receives the result  *)
(* of a job leaves the job completed when the result it received has       *)
(* success true and failed, with the error of the result, when it has      *)
(* success false.  Checked under Spec.                                     *)
(***************************************************************************)
\* The results the engine can return for the request of a job.
ResultsFor(record) ==
    { EngineResult[<< << record.prompt, record.user_preferences >>,
                      openai_client, analysis_reply, architecture_reply >>] :
          openai_client \in BOOLEAN, analysis_reply \in ModelReplies,
          architecture_reply \in ModelReplies }

C23_EngineFailureBecomesFailed ==
    /\ [](\A call \in DOMAIN EngineResult :
              /\ EngineResult[call].success \in BOOLEAN
              /\ ~EngineResult[call].success =>
                     /\ "error" \in DOMAIN EngineResult[call]
                     /\ EngineResult[call].error # ""
                     /\ "apk_path" \notin DOMAIN EngineResult[call])
    /\ [][\A generation_id \in JobIds :
              process_generation_result(generation_id) =>
                  \E result \in ResultsFor(active_generations[generation_id]) :
                      IF result.success
                      THEN /\ Completed(generation_id)'
                           /\ JobRecord(generation_id)'.apk_path = result.apk_path
                      ELSE /\ Failed(generation_id)'
                           /\ JobRecord(generation_id)'.error = result.error
                           /\ "apk_path" \notin DOMAIN JobRecord(generation_id)'
                           /\ task'[generation_id].pc = "done"]_vars

\* C23 witness: the analysis stage raised for a job (its request prefers a
\* framework outside AppFramework), and the job is failed with that error.
C23_Witness ==
    \E generation_id \in JobIds :
        /\ Failed(generation_id)
        /\ task[generation_id].pc = "done"
        /\ JobRecord(generation_id).error = "value is not a valid AppFramework"
        /\ \E result \in ResultsFor(JobRecord(generation_id)) :
               ~result.success /\ result.error = JobRecord(generation_id).error

(***************************************************************************)
(* C24.  The builder registry is total and single-valued over the          *)
(* frameworks: every member of AppFramework (the same five tags validate   *)
(* accepts) has one registered builder, and that builder defines both      *)
(* generate_code and build_apk; so whenever a run reaches the code         *)
(* generation or the build, the framework of its specification has a       *)
(* builder and neither lookup fails.  The lookup of a tag without a        *)
(* registered builder raises, and the exception ends the run as a failure. *)
(* Checked under SpecEngine.                                               *)
(***************************************************************************)
\* Tags that are no member of AppFramework.
UnregisteredTags == { "swift", "unity" }

\* A specification as the keyword analysis builds it, with the framework
\* replaced by the tag.
SpecificationTagged(tag) ==
    [_fallback_prompt_analysis("Build a todo list manager", EmptyDict).value
        EXCEPT !.framework = tag]

C24_RegistryTotal ==
    /\ DOMAIN framework_builders = Range(AppFramework)
    /\ Range(AppFramework) = valid_frameworks
    /\ \A tag \in DOMAIN framework_builders :
           /\ framework_builders[tag] \in DOMAIN BuilderMethods
           /\ { "generate_code", "build_apk" }
                  \subseteq BuilderMethods[framework_builders[tag]]
           /\ generate_source_code(SpecificationTagged(tag), EmptyDict).ok
           /\ build_apk(SpecificationTagged(tag), EmptyDict).ok
    /\ \A tag \in UnregisteredTags :
           /\ ~generate_source_code(SpecificationTagged(tag), EmptyDict).ok
           /\ ~build_apk(SpecificationTagged(tag), EmptyDict).ok
           /\ ~FailureResult(generate_source_code(SpecificationTagged(tag),
                                                  EmptyDict)).success
    /\ (Started /\ engine_run.app_spec # Unbound) =>
           /\ engine_run.app_spec.framework \in DOMAIN framework_builders
           /\ At("build_apk", "raised") = {}
           /\ At("generate_source_code", "invoked") # {} =>
                  \/ At("generate_source_code", "returned") # {}
                  \/ /\ At("generate_source_code", "raised") # {}
                     /\ engine_run.result.error # "KeyError: framework"
                     /\ engine_run.result.error # "NotImplementedError"

\* C24 witness: a run whose request prefers flutter was dispatched to the
\* Flutter builder for both the code and the build, and returned success.
C24_Witness ==
    /\ Finished
    /\ engine_run.result.success
    /\ engine_run.app_spec.framework = "flutter"
    /\ framework_builders[engine_run.app_spec.framework] = "FlutterBuilder"
    /\ engine_run.source_code.framework = "flutter"
    /\ engine_run.result.metadata.generation_time = BuildTime("flutter")

(***************************************************************************)
(* C25.  Job isolation under concurrency: with the tasks of several jobs   *)
(* interleaving at every suspension point, a step of the task of one job   *)
(* leaves the record (state, progress, stage, error, result), the table    *)
(* the record is in, the task and the published events of every other job  *)
(* as they are, and every job whose task was started reaches a terminal    *)
(* state of its own with its task ended.  Checked under FairSpec.          *)
(***************************************************************************)
C25_JobIsolation ==
    /\ [][\A generation_id \in JobIds :
              TaskStep(generation_id) =>
                  \A other \in JobIds \ { generation_id } :
                      /\ task'[other] = task[other]
                      /\ notifier_log'[other] = notifier_log[other]
                      /\ (other \in DOMAIN active_generations)'
                             = (other \in DOMAIN active_generations)
                      /\ (other \in DOMAIN generation_history)'
                             = (other \in DOMAIN generation_history)
                      /\ other \in KnownIds =>
                             JobRecord(other)' = JobRecord(other)]_vars
    /\ \A generation_id \in JobIds :
           (task[generation_id].pc # "none")
               ~> (Terminal(generation_id) /\ task[generation_id].pc = "done")

\* C25 witness: two jobs ran concurrently; one has failed and its task has
\* ended while the other is still processing in the middle of its stages.
C25_Witness ==
    \E generation_id \in JobIds, other \in JobIds :
        /\ Failed(generation_id)
        /\ task[generation_id].pc = "done"
        /\ task[other].pc = "stages"
        /\ task[other].i = 3
        /\ JobRecord(other).status = "processing"
        /\ JobRecord(other).progress = 40
        /\ "error" \notin DOMAIN JobRecord(other)

(***************************************************************************)
(* C26.  Publishing for a job without a subscriber is a silent no-op: a    *)
(* step of the job's task that publishes an event while no socket is       *)
(* registered for the job leaves the subscriber table and every socket as  *)
(* they are, the event is handed over all the same, and the task goes on   *)
(* to its next position as it does with a subscriber.  Checked under       *)
(* SpecWs.                                                                 *)
(***************************************************************************)
C26_PublishWithoutSubscriber ==
    [][\A generation_id \in JobIds :
          (TaskStep(generation_id)
               /\ generation_id \notin DOMAIN active_connections) =>
              /\ active_connections' = active_connections
              /\ sock' = sock
              /\ Len(notifier_log'[generation_id])
                     = Len(notifier_log[generation_id]) + 1
              /\ task'[generation_id] = NextTask(task[generation_id])
              /\ JobRecord(generation_id)'.status
                     = notifier_log'[generation_id]
                           [Len(notifier_log'[generation_id])].data.status]_vars

\* C26 witness: a job ran to completed and published all its events
\* without ever having a subscriber, while the only socket was subscribed
\* to the other job.
C26_Witness ==
    \E generation_id \in JobIds, other \in JobIds :
        /\ other # generation_id
        /\ Completed(generation_id)
        /\ task[generation_id].pc = "done"
        /\ Len(notifier_log[generation_id]) = Len(stages) + 2
        /\ \A s \in Sockets :
               sock[s].state = "open" /\ sock[s].generation_id = other
        /\ DOMAIN active_connections = { other }

(***************************************************************************)
(* C27.  Late subscribers.  As claimed: a client that subscribes to a      *)
(* known job at any time, also after the job has completed or failed, is   *)
(* sent a current-status event on connect that tells the status of the     *)
(* job.                                                                    *)
(***************************************************************************)
\* C27 as claimed (refuted: a completed job has left active_generations,
\* and the endpoint sends the initial status for active jobs only).
C27_ClaimedLateSubscriberLearnsStatus ==
    [][\A s \in Sockets, generation_id \in JobIds :
          (websocket_endpoint(s, generation_id)
               /\ generation_id \in KnownIds) =>
              /\ sock'[s].last # EmptyDict
              /\ sock'[s].last.status = StatusOf(generation_id)]_vars

(***************************************************************************)
(* C28.  The calculator scenario with the model layer failing or absent.   *)
(* As claimed, the request "Create a simple calculator app with basic      *)
(* arithmetic operations" without preferences gets category utility and    *)
(* the first declared framework, react_native, and its job completes.  In  *)
(* the code the keyword rules of _fallback_prompt_analysis come before the *)
(* default: the prompt holds "simple" (and "basic"), so the framework is   *)
(* cordova.  The amended statement, checked under Spec: every result the   *)
(* engine returns for this request when it has no client, or when both     *)
(* model calls raise or return text that is not JSON, has success true,    *)
(* category utility and framework cordova; and the step of                 *)
(* process_generation that handles such a result leaves the job completed, *)
(* in the history, with framework cordova.                                 *)
(***************************************************************************)
CalculatorPrompt ==
    "Create a simple calculator app with basic arithmetic operations"

\* The replies of a failing model layer.
FailingReplies == { CallRaises, NotJson }

\* What the engine returns for the calculator request when the model layer
\* is absent or failing.
FallbackCalculatorResults ==
    { EngineResult[call] :
          call \in { c \in DOMAIN EngineResult :
                         /\ c[1] = << CalculatorPrompt, EmptyDict >>
                         /\ \/ ~c[2]
                            \/ c[3] \in FailingReplies
                                   /\ c[4] \in FailingReplies } }

IsCalculatorJob(generation_id) ==
    /\ generation_id \in DOMAIN active_generations
    /\ active_generations[generation_id].prompt = CalculatorPrompt
    /\ active_generations[generation_id].user_preferences = EmptyDict

\* The result step of a job, handling the given result.
HandlesResult(generation_id, result) ==
    /\ task[generation_id].pc = "engine"
    /\ task'[generation_id].pc = "done"
    /\ IF result.success
       THEN process_generation_completed(generation_id, result)
       ELSE process_generation_failed(generation_id, result)

\* C28 (amended): utility and cordova from the fallback, and the job
\* completes.
C28_FallbackCalculatorCompletes ==
    /\ [](\A result \in FallbackCalculatorResults :
              /\ result.success
              /\ result.app_specification.category = "utility"
              /\ result.app_specification.framework = "cordova")
    /\ [][\A generation_id \in JobIds : \A result \in FallbackCalculatorResults :
              (IsCalculatorJob(generation_id)
                   /\ HandlesResult(generation_id, result)) =>
                  /\ generation_id \in DOMAIN generation_history'
                  /\ generation_id \notin DOMAIN active_generations'
                  /\ generation_history'[generation_id].status = "completed"
                  /\ generation_history'[generation_id].framework = "cordova"]_vars

\* A calculator job that completed on the fallback analysis.
C28_Witness ==
    \E generation_id \in DOMAIN generation_history :
        /\ generation_history[generation_id].prompt = CalculatorPrompt
        /\ generation_history[generation_id].user_preferences = EmptyDict
        /\ generation_history[generation_id].status = "completed"
        /\ generation_history[generation_id].framework = "cordova"
        /\ generation_history[generation_id].app_name
               = JStr("Generated Utility App")

\* C28 as claimed: the first declared framework, react_native (refuted).
C28_ClaimedFirstDeclaredFramework ==
    /\ [](\A result \in FallbackCalculatorResults :
              /\ result.success
              /\ result.app_specification.category = "utility"
              /\ result.app_specification.framework = "react_native")
    /\ [][\A generation_id \in JobIds : \A result \in FallbackCalculatorResults :
              (IsCalculatorJob(generation_id)
                   /\ HandlesResult(generation_id, result)) =>
                  /\ generation_id \in DOMAIN generation_history'
                  /\ generation_history'[generation_id].status = "completed"
                  /\ generation_history'[generation_id].framework
                         = "react_native"]_vars

(***************************************************************************)
(* C29.  Confidence scoring.  As claimed: on an analysis or architecture   *)
(* template, content that parses scores 0.8, plus 0.1 only when the        *)
(* required fields the template's constraints declare are present in the   *)
(* content, capped at 1.0, and content that does not parse scores 0.3; on  *)
(* a code-generation template content scores 0.7 with a code marker and    *)
(* 0.5 without; any other template type scores 0.6.  Scores are in tenths. *)
(***************************************************************************)
\* The required fields the constraints declare are all keys of the parsed
\* content.
RequiredFieldsPresent(content, template) ==
    LET parsed == json_loads(content)
    IN  /\ "required_fields" \in DOMAIN template.constraints
        /\ parsed.ok
        /\ parsed.value.t = "dict"
        /\ \A i \in DOMAIN template.constraints.required_fields :
               template.constraints.required_fields[i]
                   \in DOMAIN parsed.value.v

\* The score as the claim states it.
ClaimedConfidence(content, template) ==
    IF template.type \in { "analysis", "architecture" }
    THEN IF json_loads(content).ok
         THEN 8 + (IF RequiredFieldsPresent(content, template) THEN 1 ELSE 0)
         ELSE 3
    ELSE IF template.type = "code_generation"
    THEN IF HasCodeKeyword(content) THEN 7 ELSE 5
    ELSE 6

\* C29 as claimed (refuted: the score rises by 0.1 whenever the template
\* has any constraints, whatever the content holds).
C29_ClaimedConfidence ==
    (engineer_call.called /\ engineer_call.method = "_calculate_confidence") =>
        engineer_call.returned
            = ClaimedConfidence(engineer_call.content, engineer_call.template)

(***************************************************************************)
(* C30.  Content that does not parse.  When the model call succeeded and   *)
(* json.loads rejects its content, analyze_app_prompt and                  *)
(* generate_architecture do not raise: they return a result with success   *)
(* false, the error message of the method and the content as raw_response. *)
(* Checked under SpecEngineerCalls.                                        *)
(***************************************************************************)
ParsingMethods == { "analyze_app_prompt", "generate_architecture" }

C30_UnparsableContentIsReported ==
    (/\ engineer_call.called
     /\ engineer_call.method \in ParsingMethods
     /\ ~IsJson(engineer_call.content)) =>
        /\ engineer_call.returned.ok
        /\ engineer_call.returned.value.success = FALSE
        /\ engineer_call.returned.value.error =
               (IF engineer_call.method = "analyze_app_prompt"
                THEN "Invalid AI response format"
                ELSE "Invalid architecture response")
        /\ engineer_call.returned.value.raw_response = engineer_call.content

\* analyze_app_prompt was handed "Invalid JSON response" and returned the
\* failure result.
C30_Witness ==
    /\ engineer_call.called
    /\ engineer_call.method = "analyze_app_prompt"
    /\ engineer_call.content = "Invalid JSON response"
    /\ engineer_call.returned.ok
    /\ ~engineer_call.returned.value.success
    /\ engineer_call.returned.value.raw_response = "Invalid JSON response"

(***************************************************************************)
(* C31.  A failing model call in the analysis or the architecture stage.   *)
(* As claimed, the failure is terminal for the job: the job fails with the *)
(* stage error and later stages are not run.  In the code both stages      *)
(* catch the exception of _call_openai and of json.loads and answer from   *)
(* the keyword analysis or the template architecture instead.  The amended *)
(* statement, checked under SpecEngine: when the model call of the         *)
(* analysis stage raises or returns text that is not JSON, the stage ends  *)
(* as _fallback_prompt_analysis ends (it returns the fallback              *)
(* specification and the run goes on, or it raises what the fallback       *)
(* raised); when the model call of the architecture stage does, the stage  *)
(* returns the template architecture and the run goes on; and no stage     *)
(* calls the model more than once.                                         *)
(***************************************************************************)
\* The positions of the trace where the model call of the stage failed.
ModelFailedAt(stage) ==
    At(stage, "_call_openai:raise") \cup At(stage, "_call_openai:text")

C31_ModelFailureFallsBack ==
    Started =>
        /\ \A k \in DOMAIN PipelineStages :
               Cardinality(At(PipelineStages[k], "_call_openai")) <= 1
        /\ \A i \in ModelFailedAt("analyze_prompt") :
               LET fallback ==
                       _fallback_prompt_analysis(engine_run.prompt,
                                                 engine_run.user_preferences)
               IN  /\ i < Len(engine_run.trace)
                   /\ IF fallback.ok
                      THEN /\ engine_run.trace[i + 1]
                                  = StageReturned("analyze_prompt")
                           /\ engine_run.app_spec = fallback.value
                           /\ engine_run.pc # "analyze_prompt_await"
                      ELSE /\ engine_run.trace[i + 1]
                                  = StageRaised("analyze_prompt")
                           /\ engine_run.result = FailureResult(fallback)
        /\ \A i \in ModelFailedAt("generate_architecture") :
               /\ i < Len(engine_run.trace)
               /\ engine_run.trace[i + 1]
                      = StageReturned("generate_architecture")
               /\ engine_run.architecture
                      = _get_template_architecture(engine_run.app_spec)
               /\ engine_run.pc
                      \in { "generate_source_code", "build_apk", "returned" }

\* Both model calls of a run failed, and the run has returned success with
\* the specification of the keyword fallback and the template architecture.
C31_Witness ==
    /\ Finished
    /\ ModelFailedAt("analyze_prompt") # {}
    /\ ModelFailedAt("generate_architecture") # {}
    /\ engine_run.result.success
    /\ At("build_apk", "returned") # {}

\* C31 as claimed: a failing model call ends the stage with a raise and the
\* run with a failure (refuted).
C31_ClaimedModelFailureTerminal ==
    Started =>
        \A stage \in { "analyze_prompt", "generate_architecture" } :
            \A i \in ModelFailedAt(stage) :
                /\ i < Len(engine_run.trace)
                /\ engine_run.trace[i + 1] = StageRaised(stage)
                /\ Finished
                /\ ~engine_run.result.success

EngineReturned(generation_id) == task[generation_id].pc = "done"

\* The progress values of the stages that follow a stage of the engine.
ProgressAfterEngineStage == { stages[k].progress : k \in 2..Len(stages) }

\* C33 as claimed (refuted: process_generation publishes all five stages
\* from a loop with asyncio.sleep(2) before it calls the engine).
C33_ClaimedProgressFollowsEngine ==
    \A generation_id \in JobIds :
        /\ \A i \in DOMAIN notifier_log[generation_id] :
               notifier_log[generation_id][i].data.progress
                       \in ProgressAfterEngineStage
                   => EngineReturned(generation_id)
        /\ (generation_id \in DOMAIN active_generations
              /\ active_generations[generation_id].progress
                     \in ProgressAfterEngineStage)
               => EngineReturned(generation_id)

(***************************************************************************)
(* C34.  Timeouts of model calls.  As claimed: every model call is made    *)
(* under a bounded timeout, so a candidate that never responds counts as   *)
(* failed and _execute_prompt always eventually returns a response or      *)
(* fails with "All AI models failed to respond".                           *)
(***************************************************************************)
\* C34 as claimed (refuted: _call_openai is awaited without a timeout, so
\* an execution whose provider never answers stays at its await).
C34_ClaimedExecuteTerminates ==
    \A e \in Execs :
        (executions[e].pc = "await") ~>
            (executions[e].pc \in { "returned", "raised" })

(***************************************************************************)
(* C35.  The complexity level of a job's specification.  As claimed: the   *)
(* specification the analysis stage produces always has a complexity level *)
(* that is an integer within 1..10, from a model response as well as from  *)
(* the keyword fallback.                                                   *)
(***************************************************************************)
\* C35 as claimed (refuted: analyze_prompt copies complexity_level from the
\* model's JSON into the AppSpecification unchecked).
C35_ClaimedComplexityInRange ==
    (Started /\ At("analyze_prompt", "returned") # {}) =>
        /\ engine_run.app_spec.complexity_level.t = "num"
        /\ engine_run.app_spec.complexity_level.v \in 1..10

(***************************************************************************)
(* C36.  Every accepted job id is in exactly one of active_generations and *)
(* generation_history at every moment after its submit has returned: never *)
(* in both, never in neither, and no step of a task or a query makes a     *)
(* known id unknown.  Checked under SpecQueries, where the tasks of two    *)
(* jobs interleave with status, download and history queries.              *)
(***************************************************************************)
\* POST /generate has returned the id: its task was created.
Accepted(generation_id) == task[generation_id].pc # "none"

C36_ExactlyOneTable ==
    /\ [](/\ DOMAIN active_generations \cap DOMAIN generation_history = {}
          /\ \A generation_id \in JobIds :
                 Accepted(generation_id) <=> generation_id \in KnownIds)
    /\ [][KnownIds \subseteq KnownIds']_vars

\* One accepted job has moved to the history while another is still active.
C36_Witness ==
    \E generation_id \in JobIds, other \in JobIds :
        /\ Accepted(generation_id)
        /\ Accepted(other)
        /\ generation_id \in DOMAIN generation_history
        /\ generation_id \notin DOMAIN active_generations
        /\ other \in DOMAIN active_generations
        /\ other \notin DOMAIN generation_history

(***************************************************************************)
(* C37.  Completed means archived.  In every state another task or a query *)
(* can observe, a job record has status completed if and only if it is in  *)
(* generation_history; every completed record carries an apk_path and an   *)
(* app_name; no record of active_generations shows completed; and a status *)
(* query answers completed only for a job of the history.  Checked under   *)
(* SpecStatus.                                                             *)
(***************************************************************************)
C37_CompletedIffArchived ==
    /\ \A generation_id \in DOMAIN generation_history :
           /\ generation_history[generation_id].status = "completed"
           /\ generation_history[generation_id].progress = 100
           /\ "apk_path" \in DOMAIN generation_history[generation_id]
           /\ generation_history[generation_id].apk_path \in Paths
           /\ "app_name" \in DOMAIN generation_history[generation_id]
    /\ \A generation_id \in DOMAIN active_generations :
           /\ active_generations[generation_id].status # "completed"
           /\ "apk_path" \notin DOMAIN active_generations[generation_id]
    /\ ("progress" \in DOMAIN response /\ response.status = "completed") =>
           response.generation_id \in DOMAIN generation_history

\* A status query has answered completed for an archived job while another
\* job has failed and is still in the active set.
C37_Witness ==
    /\ "progress" \in DOMAIN response
    /\ response.status = "completed"
    /\ response.generation_id \in DOMAIN generation_history
    /\ \E other \in DOMAIN active_generations :
           active_generations[other].status = "failed"

(***************************************************************************)
(* C38.  Integrity of the subscriber table.  As claimed: when a second     *)
(* subscriber connects for a job while an earlier one is still registered, *)
(* the later disconnect of the earlier one (or a failed send to it) does   *)
(* not remove the registration of the newer one, which keeps receiving the *)
(* events of the job until it disconnects itself.                          *)
(***************************************************************************)
\* The socket is connected, and no socket has connected for its job after
\* it (sockets connect in the order of their numbers).
NewestSubscriber(s) ==
    /\ sock[s].state = "open"
    /\ \A z \in DOMAIN sock :
           (z > s /\ sock[z].state # "new")
               => sock[z].generation_id # sock[s].generation_id

\* C38 as claimed (refuted: active_connections holds one socket per job,
\* and disconnect deletes the entry of the job whichever socket it holds).
C38_ClaimedNewestSubscriberKept ==
    \A s \in DOMAIN sock :
        NewestSubscriber(s) =>
            /\ sock[s].generation_id \in DOMAIN active_connections
            /\ active_connections[sock[s].generation_id] = s

(***************************************************************************)
(* C39.  No cross-contamination of results.  As claimed: two different     *)
(* jobs that both complete never record the same artifact path, whatever   *)
(* their frameworks.                                                       *)
(***************************************************************************)
\* C39 as claimed (refuted: build_apk of every builder returns the constant
\* "path/to/app.apk", which process_generation stores as apk_path).
C39_ClaimedDistinctArtifactPaths ==
    \A generation_id \in DOMAIN generation_history :
        \A other \in DOMAIN generation_history :
            other # generation_id =>
                generation_history[other].apk_path
                    # generation_history[generation_id].apk_path

(***************************************************************************)
(* C40.  _sanitize_project_name.  As claimed: for every name it returns a  *)
(* non-empty string of ASCII letters and digits that starts with a letter  *)
(* (characters that are no letters or digits removed, "App" prefixed when  *)
(* the rest starts with a digit, "GeneratedApp" when nothing is left), and *)
(* applying it to its result gives the result again.                       *)
(***************************************************************************)
\* C40 as claimed (refuted: the module never imports re, so the call of
\* re.sub raises NameError for every name).
C40_ClaimedSanitizeReturns ==
    (engineer_call.called
         /\ engineer_call.method = "_sanitize_project_name") =>
        /\ engineer_call.returned.ok
        /\ engineer_call.returned.value = Sanitized(engineer_call.name)
        /\ engineer_call.returned.value # ""
        /\ IsAlpha(SubSeq(engineer_call.returned.value, 1, 1))
        /\ ReSubNonAlnum(engineer_call.returned.value)
               = engineer_call.returned.value
        /\ _sanitize_project_name(engineer_call.returned.value)
               = engineer_call.returned

====
